---- MODULE Spec2Model ----
(***************************************************************************)
(* Verification model of the SEF (Signal Enhancement Factor) scripts:      *)
(* the SEF calculator (calculate_sef, calculate_sef_improvement,           *)
(* analyze_sef_improvements) and the parameter estimators                  *)
(* (validate_sef_framework, validate_domain_sef,                           *)
(* analyze_variance_asymmetry_quadrant, apply_competitive_framework,       *)
(* calculate_sef_parameters).                                              *)
(*                                                                         *)
(* Numbers.  The scripts compute in numpy float64.  The model computes in  *)
(* exact arithmetic over the values float64 has: finite numbers, +inf,     *)
(* -inf and NaN.  A finite number is a reduced fraction n/d (kind "fin")   *)
(* or a signed square root of one, +sqrt(n/d) (kind "root") or -sqrt(n/d)  *)
(* (kind "nroot"), which is what np.sqrt of a non-square yields.  Division *)
(* by zero follows numpy (inf or NaN, no exception), comparisons with NaN  *)
(* are false.  Rounding error is left out of this arithmetic; the section  *)
(* on calculate_sef in rounded arithmetic evaluates the formula with every *)
(* operation rounded to nearest.                                           *)
(***************************************************************************)
EXTENDS Integers, Sequences, FiniteSets, TLC

----------------------------------------------------------------------------
(* Bounds of the model *)

\* kappa inputs of the SEF calculator are (p/q)^2, 0 and -(p/q)^2, p, q in 1..MaxRoot
MaxRoot == 4
\* rho inputs are i/RhoDen with |i| <= RhoSpan * RhoDen (rho in [-RhoSpan, RhoSpan])
RhoDen == 4
RhoSpan == 2
\* a group of the estimators' table has up to MaxRows rows with a measurement
MaxRows == 10
\* measurements are integers built from a base and a spread in 0..MaxVal
MaxVal == 2
\* each group has 0..MaxMissing further rows whose measurement is missing
MaxMissing == 1

----------------------------------------------------------------------------
(* Exact arithmetic on float64's value kinds *)

Abs(i) == IF i < 0 THEN -i ELSE i

Sign(i) == IF i < 0 THEN -1 ELSE IF i = 0 THEN 0 ELSE 1

RECURSIVE Gcd(_, _)
Gcd(a, b) == IF b = 0 THEN a ELSE Gcd(b, a % b)

\* the reduced fraction n/d, d # 0
Fin(n, d) ==
  LET g == Gcd(Abs(n), Abs(d))
      s == IF d < 0 THEN -1 ELSE 1
  IN  [k |-> "fin", n |-> (s * n) \div g, d |-> (s * d) \div g]

Whole(i) == Fin(i, 1)
Zero == Whole(0)
One == Whole(1)
Two == Whole(2)
Inf == [k |-> "inf", n |-> 1, d |-> 0]
NegInf == [k |-> "ninf", n |-> -1, d |-> 0]
NaN == [k |-> "nan", n |-> 0, d |-> 0]

IsNaN(x) == x.k = "nan"
IsFinite(x) == x.k \in {"fin", "root", "nroot", "sum"}
IsRoot(x) == x.k \in {"root", "nroot"}

\* largest r in lo..hi-1 with r * r <= n, given lo * lo <= n < hi * hi
RECURSIVE ISqrtIn(_, _, _)
ISqrtIn(n, lo, hi) ==
  IF hi - lo <= 1 THEN lo
  ELSE LET mid == (lo + hi) \div 2
       IN  IF mid * mid <= n THEN ISqrtIn(n, mid, hi) ELSE ISqrtIn(n, lo, mid)

\* largest r with r * r <= n, for 0 <= n < 2^31 (46341^2 > 2^31)
ISqrt(n) == ISqrtIn(n, 0, IF n < 46341 THEN n + 1 ELSE 46341)

IsSquare(n) == n >= 0 /\ ISqrt(n) * ISqrt(n) = n

\* the square of a fraction or of a root, as a fraction
Sq(x) == IF x.k = "fin" THEN Fin(x.n * x.n, x.d * x.d) ELSE Fin(x.n, x.d)

\* sign of a fraction or a root
Sgn1(x) ==
  CASE x.k = "fin" -> Sign(x.n)
    [] x.k = "root" -> 1
    [] x.k = "nroot" -> -1

\* sign of a value (-1, 0, 1); NaN has none and is excluded by the callers.
\* A sum a + r of a fraction and an irrational root has the sign of the larger part.
Sgn(x) ==
  CASE x.k \in {"fin", "root", "nroot"} -> Sgn1(x)
    [] x.k = "inf" -> 1
    [] x.k = "ninf" -> -1
    [] x.k = "sum" ->
         IF Sgn1(x.a) = Sgn1(x.r) THEN Sgn1(x.r)
         ELSE IF Sq(x.a).n * Sq(x.r).d > Sq(x.r).n * Sq(x.a).d
              THEN Sgn1(x.a) ELSE Sgn1(x.r)

\* s * sqrt(q) for a sign s and a fraction q >= 0: a fraction when q is a square
SignedRoot(s, q) ==
  IF s = 0 \/ q.n = 0 THEN Zero
  ELSE IF IsSquare(q.n) /\ IsSquare(q.d)
       THEN Fin(s * ISqrt(q.n), ISqrt(q.d))
       ELSE [k |-> IF s > 0 THEN "root" ELSE "nroot", n |-> q.n, d |-> q.d]

\* product and quotient of fractions and roots
Mul1(x, y) ==
  IF x.k = "fin" /\ y.k = "fin" THEN Fin(x.n * y.n, x.d * y.d)
  ELSE SignedRoot(Sgn1(x) * Sgn1(y), Fin(Sq(x).n * Sq(y).n, Sq(x).d * Sq(y).d))

Div1(x, y) ==
  IF x.k = "fin" /\ y.k = "fin" THEN Fin(x.n * y.d, x.d * y.n)
  ELSE SignedRoot(Sgn1(x) * Sgn1(y), Fin(Sq(x).n * Sq(y).d, Sq(x).d * Sq(y).n))

Add1(x, y) == Fin(x.n * y.d + y.n * x.d, x.d * y.d)

Neg1(x) ==
  CASE x.k = "fin" -> Fin(-x.n, x.d)
    [] x.k = "root" -> [x EXCEPT !.k = "nroot"]
    [] x.k = "nroot" -> [x EXCEPT !.k = "root"]

\* a + r for a fraction a and a root r (or a fraction r, when the root is rational)
Sum(a, r) ==
  IF r.k = "fin" THEN Add1(a, r)
  ELSE IF a = Zero THEN r
  ELSE [k |-> "sum", a |-> a, r |-> r]

FNeg(x) ==
  CASE x.k \in {"fin", "root", "nroot"} -> Neg1(x)
    [] x.k = "sum" -> Sum(Neg1(x.a), Neg1(x.r))
    [] x.k = "inf" -> NegInf
    [] x.k = "ninf" -> Inf
    [] x.k = "nan" -> NaN

FAbs(x) == IF IsNaN(x) THEN NaN ELSE IF Sgn(x) < 0 THEN FNeg(x) ELSE x

\* x + y, exact for fractions and for a fraction plus a root (or a sum)
FAdd(x, y) ==
  CASE IsNaN(x) \/ IsNaN(y) -> NaN
    [] x.k = "inf" -> IF y.k = "ninf" THEN NaN ELSE Inf
    [] x.k = "ninf" -> IF y.k = "inf" THEN NaN ELSE NegInf
    [] y.k \in {"inf", "ninf"} /\ IsFinite(x) -> y
    [] x.k = "fin" /\ y.k = "fin" -> Add1(x, y)
    [] x.k = "fin" /\ IsRoot(y) -> Sum(x, y)
    [] IsRoot(x) /\ y.k = "fin" -> Sum(y, x)
    [] x.k = "fin" /\ y.k = "sum" -> Sum(Add1(x, y.a), y.r)
    [] x.k = "sum" /\ y.k = "fin" -> Sum(Add1(x.a, y), x.r)

FSub(x, y) == FAdd(x, FNeg(y))

FMul(x, y) ==
  CASE IsNaN(x) \/ IsNaN(y) -> NaN
    [] ~IsNaN(x) /\ ~IsNaN(y) /\ (~IsFinite(x) \/ ~IsFinite(y)) ->
         IF Sgn(x) * Sgn(y) = 0 THEN NaN
         ELSE IF Sgn(x) * Sgn(y) > 0 THEN Inf ELSE NegInf
    [] x.k = "sum" /\ y.k = "fin" -> Sum(Mul1(x.a, y), Mul1(x.r, y))
    [] x.k = "fin" /\ y.k = "sum" -> Sum(Mul1(x, y.a), Mul1(x, y.r))
    [] x.k \in {"fin", "root", "nroot"} /\ y.k \in {"fin", "root", "nroot"} -> Mul1(x, y)

\* x ** 2
FSquare(x) == FMul(x, x)

\* x / (a + r) = x * (a - r) / (a^2 - r^2) for a fraction x
DivBySum(x, y) ==
  LET norm == Add1(Sq(y.a), Neg1(Sq(y.r)))
      c == Div1(x, norm)
  IN  Sum(Mul1(c, y.a), Neg1(Mul1(c, y.r)))

\* numpy's true division: x / 0 is inf, -inf or NaN, never an exception
FDiv(x, y) ==
  CASE IsNaN(x) \/ IsNaN(y) -> NaN
    [] ~IsNaN(y) /\ x.k \in {"inf", "ninf"} ->
         IF ~IsFinite(y) THEN NaN
         ELSE IF Sgn(y) >= 0 THEN x ELSE FNeg(x)
    [] IsFinite(x) /\ y.k \in {"inf", "ninf"} -> Zero
    [] IsFinite(x) /\ y = Zero ->
         IF Sgn(x) = 0 THEN NaN ELSE IF Sgn(x) > 0 THEN Inf ELSE NegInf
    [] x.k = "fin" /\ y.k = "sum" -> DivBySum(x, y)
    [] x.k = "sum" /\ y.k = "fin" /\ y # Zero -> Sum(Div1(x.a, y), Div1(x.r, y))
    [] x.k \in {"fin", "root", "nroot"} /\ y.k \in {"fin", "root", "nroot"} /\ y # Zero ->
         Div1(x, y)

\* x == y as floats compare: false when either is NaN
FEq(x, y) == ~IsNaN(x) /\ ~IsNaN(y) /\ x = y

\* x < y; false when either is NaN
FLt(x, y) ==
  /\ ~IsNaN(x) /\ ~IsNaN(y)
  /\ x # y
  /\ CASE x.k = "ninf" -> TRUE
       [] x.k = "inf" -> FALSE
       [] IsFinite(x) /\ y.k = "inf" -> TRUE
       [] IsFinite(x) /\ y.k = "ninf" -> FALSE
       [] x.k = "fin" /\ y.k = "fin" -> x.n * y.d < y.n * x.d
       [] IsRoot(x) /\ IsRoot(y) ->
            \/ Sgn1(x) < Sgn1(y)
            \/ Sgn1(x) = Sgn1(y) /\ Sgn1(x) > 0 /\ x.n * y.d < y.n * x.d
            \/ Sgn1(x) = Sgn1(y) /\ Sgn1(x) < 0 /\ x.n * y.d > y.n * x.d
       [] IsFinite(x) /\ IsFinite(y) /\ (x.k = "fin") # (y.k = "fin") ->
            Sgn(FSub(x, y)) < 0
       [] x.k = "sum" /\ y.k = "sum" /\ x.r = y.r -> x.a.n * y.a.d < y.a.n * x.a.d

FLe(x, y) == FLt(x, y) \/ FEq(x, y)

FGt(x, y) == FLt(y, x)

FGe(x, y) == FLe(y, x)

\* np.sqrt: NaN for a negative argument (the warning is filtered), no exception
np_sqrt(x) ==
  CASE IsNaN(x) -> NaN
    [] x.k = "inf" -> Inf
    [] x.k = "ninf" -> NaN
    [] x.k = "fin" -> IF x.n < 0 THEN NaN ELSE SignedRoot(1, x)

----------------------------------------------------------------------------
(* State *)

VARIABLES
  fn,          \* the function that has run ("none" before any call)
  sefArgs,     \* calculate_sef: the arguments [kappa, rho] of the call
  sefRet,      \* calculate_sef: the value returned
  sefDivisor,  \* calculate_sef: the divisor of the division on line 33, Nil if none
  swapRet,     \* calculate_sef(1/kappa, rho): the value returned with the groups swapped
  impParams,   \* calculate_sef_improvement: its params dictionary
  impRet,      \* calculate_sef_improvement: the dictionary returned
  logStats,    \* analyze_sef_improvements: kappa of original_stats and of log_stats
  logRet,      \* analyze_sef_improvements: original_sef and log_sef
  df,          \* estimators: the table, a sequence of rows [label, value]
  class_a,     \* estimators: the measurements of Class A as the function holds them
  class_b,     \* estimators: the measurements of Class B
  est,         \* estimators: the function's local variables, Nil while not assigned
  ret,         \* estimators: what the function returned ("" while it has not), or
               \* the exception it raised
  printed,     \* estimators: the diagnostics printed
  main,        \* scripts: how the __main__ block ended ("" while it has not run)
  data_len,    \* normality checkers: the number of observations tested (-1: none)
  invoked,     \* normality checkers: the scipy tests called on the data
  results,     \* normality checkers: the p-value held for each test, Nil if none
  is_normal,   \* normality checkers: the verdict ("" while there is none)
  log_transformed,  \* test_normality_and_log_transform: its third return value
  norm_ret,    \* normality checkers: what was returned, or the exception raised
  fetch_pc,    \* fetch loops: "idle", "loop", "after_loop" or "returned"
  attempts,    \* fetch loops: the loop counter (attempt, attempts)
  requests,    \* fetch loops: the number of requests.get calls issued
  failed_at,   \* fetch loops: the value of requests when a call failed, -1 if none
  total_measurements,  \* fetch loops: the local of that name, -1 while unbound
  current_measurements,  \* fetch loops: the sum of EnrollmentCount of the file read
  page_token,  \* fetch_more_clinical_trials: whether page_token is set
  has_studies, \* fetch loops: whether all_studies / additional_studies is non-empty
  loaded_df,   \* supplement_to_1000: the rows of df, the dataset read
  additional_studies,  \* supplement_to_1000: the list of that name
  fetch_printed,  \* fetch loops: the diagnostics printed
  fetch_ret,   \* fetch loops: what was returned ("" while nothing)
  steps,       \* validators: the steps of the call in the order they were executed
  cms_pc,      \* collect_cms_hospital_data: "idle", "loop" or "returned"
  cms_index,   \* collect_cms_hospital_data: how many datasets the loop has visited
  collected_data,  \* collect_cms_hospital_data: the keys of collected_data
  cms_printed, \* collect_cms_hospital_data: the diagnostics printed
  cms_ret,     \* collect_cms_hospital_data: what was returned, or the exception raised
  synth_pc,    \* generate_synthetic_studies: "idle", "loop" or "returned"
  needed_measurements,     \* generate_synthetic_studies: the argument
  remaining_measurements,  \* generate_synthetic_studies: the local of that name
  study_id,    \* generate_synthetic_studies: the local of that name
  synthetic_studies,  \* generate_synthetic_studies: the list built and returned
  create_pc,   \* create_1000_plus_dataset: "idle", "generating" or "returned"
  df_real,     \* create_1000_plus_dataset: the EnrollmentCount column of the file read
  final_df,    \* create_1000_plus_dataset: the EnrollmentCount column of the file written
  create_ret,  \* create_1000_plus_dataset: what was returned ("" while nothing)
  quadrants,   \* quadrant scripts: delta, kappa and the label each script assigns
  sef_params,  \* calculate_sef_parameters: what the two checks gave and the scales used
  report_pc,   \* validate_scraped_datasets: "idle", "loop", "report" or "returned"
  validation_results,  \* validate_scraped_datasets: the entries in insertion order
  report_printed,      \* generate_validation_report: the lines printed
  report_ret,  \* validate_scraped_datasets: "None", or the exception raised
  zip_pc,      \* CMS downloads: "idle", "loop" or "returned"
  zip_index,   \* test_multiple_cms_datasets: how many datasets the loop has visited
  disk,        \* CMS downloads: the ZIP files on disk
  zip_written, \* CMS downloads: the ZIP files download_cms_zip_file wrote in this call
  successful_downloads  \* test_multiple_cms_datasets: the list of that name

sefVars == <<sefArgs, sefRet, sefDivisor, swapRet, impParams, impRet, logStats, logRet>>

estVars == <<df, class_a, class_b, est, ret, printed, main, steps>>

normVars == <<data_len, invoked, results, is_normal, log_transformed, norm_ret>>

fetchVars == <<fetch_pc, attempts, requests, failed_at, total_measurements,
               current_measurements, page_token,
               has_studies, loaded_df, additional_studies, fetch_printed, fetch_ret>>

\* the variables only supplement_to_1000 writes
supVars == <<loaded_df, additional_studies>>

cmsVars == <<cms_pc, cms_index, collected_data, cms_printed, cms_ret>>

synthVars == <<synth_pc, needed_measurements, remaining_measurements, study_id,
               synthetic_studies>>

createVars == <<create_pc, df_real, final_df, create_ret>>

quadVars == <<quadrants>>

paramVars == <<sef_params>>

reportVars == <<report_pc, validation_results, report_printed, report_ret>>

zipVars == <<zip_pc, zip_index, disk, zip_written, successful_downloads>>

\* the variables the SEF calculator leaves alone
nonSefVars ==
  <<estVars, normVars, fetchVars, cmsVars, synthVars, createVars, quadVars, paramVars, reportVars, zipVars>>

\* the variables the estimators and their scripts leave alone
nonEstVars ==
  <<sefVars, normVars, fetchVars, cmsVars, synthVars, createVars, quadVars, paramVars, reportVars, zipVars>>

\* the variables the normality checkers leave alone
nonNormVars ==
  <<sefVars, estVars, fetchVars, cmsVars, synthVars, createVars, quadVars, paramVars, reportVars, zipVars>>

\* the variables the fetch loops leave alone
nonFetchVars ==
  <<sefVars, estVars, normVars, cmsVars, synthVars, createVars, quadVars, paramVars, reportVars, zipVars>>

\* the variables collect_cms_hospital_data leaves alone
nonCmsVars ==
  <<sefVars, estVars, normVars, fetchVars, synthVars, createVars, quadVars, paramVars, reportVars, zipVars>>

\* the variables generate_synthetic_studies leaves alone
nonSynthVars ==
  <<sefVars, estVars, normVars, fetchVars, cmsVars, createVars, quadVars, paramVars, reportVars, zipVars>>

\* the variables create_1000_plus_dataset and the generator it calls leave alone
nonCreateVars ==
  <<sefVars, estVars, normVars, fetchVars, cmsVars, quadVars, paramVars, reportVars, zipVars>>

\* the variables the quadrant assignments leave alone
nonQuadVars ==
  <<sefVars, estVars, normVars, fetchVars, cmsVars, synthVars, createVars, paramVars, reportVars, zipVars>>

\* the variables calculate_sef_parameters leaves alone
nonParamVars ==
  <<sefVars, estVars, normVars, fetchVars, cmsVars, synthVars, createVars, quadVars, reportVars, zipVars>>

\* the variables validate_scraped_datasets leaves alone
nonReportVars ==
  <<sefVars, estVars, normVars, fetchVars, cmsVars, synthVars, createVars, quadVars, paramVars, zipVars>>

\* the variables the CMS downloads leave alone
nonZipVars ==
  <<sefVars, estVars, normVars, fetchVars, cmsVars, synthVars, createVars, quadVars, paramVars, reportVars>>

vars ==
  <<fn, sefVars, estVars, normVars, fetchVars, cmsVars, synthVars, createVars, quadVars, paramVars, reportVars, zipVars>>

\* no value (Python's None, or a variable not assigned yet)
Nil == [k |-> "none", n |-> 0, d |-> 0]

----------------------------------------------------------------------------
(* Inputs of the SEF calculator *)

\* positive ratios p/q
Ratios == {Fin(p, q) : p \in 1..MaxRoot, q \in 1..MaxRoot}

\* kappa > 0 with a rational square root, kappa = 0 and kappa < 0
Kappas == {FMul(r, r) : r \in Ratios} \cup {Zero} \cup {FNeg(FMul(r, r)) : r \in Ratios}

\* rho in steps of 1/RhoDen, inside and outside [-1, 1]
Rhos == {Fin(i, RhoDen) : i \in (0 - RhoSpan * RhoDen)..(RhoSpan * RhoDen)}

\* correlations as pearsonr returns them
UnitRhos == {r \in Rhos : FLe(FNeg(One), r) /\ FLe(r, One)}

\* absolute mean differences
Deltas == {Fin(i, 2) : i \in 0..MaxRoot}

\* standard deviations of a group: 0, 1/2 and whole numbers
Stds == {Whole(i) : i \in 0..MaxRoot} \cup {Fin(1, 2)}

----------------------------------------------------------------------------
(* SEF calculator: validate_sef_framework.py, validate_multi_domain_sef.py *)

\* mutant: the factor 2 of the cross term is dropped
sef_denominator_no_factor(kappa, rho) ==
  FSub(FAdd(One, kappa), FMul(np_sqrt(kappa), rho))

\* 1 + kappa - 2 * np.sqrt(kappa) * rho
sef_denominator(kappa, rho) ==
  FSub(FAdd(One, kappa), FMul(FMul(Two, np_sqrt(kappa)), rho))

\* mutant: the guard tests < 0 and lets a zero denominator through
sef_guard_strict(kappa, rho) == FLt(sef_denominator(kappa, rho), Zero)

\* mutant: no guard at all
sef_guard_absent(kappa, rho) == FALSE

\* if (1 + kappa - 2 * np.sqrt(kappa) * rho) <= 0
sef_guard(kappa, rho) == FLe(sef_denominator(kappa, rho), Zero)

\* mutant: the square root of kappa is dropped from the cross term
calculate_sef_no_sqrt(kappa, rho) ==
  LET den == FSub(FAdd(One, kappa), FMul(FMul(Two, kappa), rho))
  IN  IF FLe(den, Zero) THEN Inf ELSE FDiv(FAdd(One, kappa), den)

\* mutant: the numerator is 1 + kappa times the denominator's leading term
calculate_sef_plain_sum(kappa, rho) ==
  IF sef_guard(kappa, rho) THEN Inf ELSE FAdd(One, kappa)

calculate_sef(kappa, rho) ==
  IF sef_guard(kappa, rho)
  THEN Inf
  ELSE FDiv(FAdd(One, kappa), sef_denominator(kappa, rho))

\* the divisor line 33 divides by, Nil when line 32 returns first
sef_divisor(kappa, rho) ==
  IF sef_guard(kappa, rho) THEN Nil ELSE sef_denominator(kappa, rho)

\* a call calculate_sef(kappa, rho)
CalculateSef(kappa, rho) ==
  /\ fn = "none"
  /\ fn' = "calculate_sef"
  /\ sefArgs' = [kappa |-> kappa, rho |-> rho]
  /\ sefRet' = calculate_sef(kappa, rho)
  /\ sefDivisor' = sef_divisor(kappa, rho)
  /\ UNCHANGED <<swapRet, impParams, impRet, logStats, logRet, nonSefVars>>

\* the same comparison with the two groups swapped: kappa = var_A / var_B
CalculateSefSwapped ==
  /\ fn = "calculate_sef"
  /\ FGt(sefArgs.kappa, Zero)
  /\ fn' = "calculate_sef_swapped"
  /\ swapRet' = calculate_sef(FDiv(One, sefArgs.kappa), sefArgs.rho)
  /\ UNCHANGED <<sefArgs, sefRet, sefDivisor, impParams, impRet, logStats, logRet, nonSefVars>>

----------------------------------------------------------------------------
(* apply_sef_to_cms_data.py: calculate_sef_improvement *)

\* kappa as calculate_sef_parameters puts it into params (line 161)
params_kappa(mayo_std, cleveland_std) ==
  IF mayo_std # Zero THEN FDiv(FSquare(cleveland_std), FSquare(mayo_std)) ELSE Inf

\* snr_independent = delta**2 / (mayo_var + cleveland_var)
snr_independent(params) ==
  FDiv(FSquare(params.delta), FAdd(FSquare(params.mayo_std), FSquare(params.cleveland_std)))

\* relative_var = mayo_var + cleveland_var - 2 * rho * mayo_std * cleveland_std
relative_var(params) ==
  FSub(FAdd(FSquare(params.mayo_std), FSquare(params.cleveland_std)),
       FMul(FMul(FMul(Two, params.rho), params.mayo_std), params.cleveland_std))

\* snr_relative = delta**2 / relative_var if relative_var > 0 else np.inf
snr_relative(signal, rel_var) ==
  IF FGt(rel_var, Zero) THEN FDiv(signal, rel_var) ELSE Inf

\* sef = snr_relative / snr_independent if snr_independent > 0 else np.inf
improvement_dict(snr_ind, snr_rel) ==
  [snr_independent |-> snr_ind, snr_relative |-> snr_rel,
   sef |-> IF FGt(snr_ind, Zero) THEN FDiv(snr_rel, snr_ind) ELSE Inf]

calculate_sef_improvement(params) ==
  improvement_dict(snr_independent(params),
                   snr_relative(FSquare(params.delta), relative_var(params)))

\* a call calculate_sef_improvement(params), params as calculate_sef_parameters builds it
CalculateSefImprovement(delta, mayo_std, cleveland_std, rho) ==
  LET params == [delta |-> delta, kappa |-> params_kappa(mayo_std, cleveland_std),
                 rho |-> rho, mayo_std |-> mayo_std, cleveland_std |-> cleveland_std]
  IN  /\ fn = "none"
      /\ fn' = "calculate_sef_improvement"
      /\ impParams' = params
      /\ impRet' = calculate_sef_improvement(params)
      /\ UNCHANGED <<sefArgs, sefRet, sefDivisor, swapRet, logStats, logRet, nonSefVars>>

----------------------------------------------------------------------------
(* log_transform_validation.py: analyze_sef_improvements *)

\* mutant: the rho = 0 SEF is taken from the closed formula
rho_zero_sef_formula(kappa) == calculate_sef(kappa, Zero)

\* original_sef = 1 + original_stats['kappa'] (and the same for log_stats)
rho_zero_sef(kappa) == FAdd(One, kappa)

\* a call analyze_sef_improvements(original_stats, log_stats, col_name)
AnalyzeSefImprovements(original_kappa, log_kappa) ==
  /\ fn = "none"
  /\ fn' = "analyze_sef_improvements"
  /\ logStats' = [original_kappa |-> original_kappa, log_kappa |-> log_kappa]
  /\ logRet' = [original_sef |-> rho_zero_sef(original_kappa),
                log_sef |-> rho_zero_sef(log_kappa)]
  /\ UNCHANGED <<sefArgs, sefRet, sefDivisor, swapRet, impParams, impRet, nonSefVars>>

----------------------------------------------------------------------------
(* Tables and pandas statistics *)

RECURSIVE SeqSum(_)
SeqSum(xs) == IF xs = <<>> THEN Zero ELSE FAdd(Head(xs), SeqSum(Tail(xs)))

\* df[df[col] == value][measurement_col]: the measurements of the rows with the label
partition(table, label) ==
  LET rows == SelectSeq(table, LAMBDA row : row.label = label)
  IN  [i \in 1..Len(rows) |-> rows[i].value]

\* Series.dropna()
dropna(xs) == SelectSeq(xs, LAMBDA x : ~IsNaN(x))

\* the mean of the values present, NaN for no value
mean_of_present(v) == IF Len(v) = 0 THEN NaN ELSE FDiv(SeqSum(v), Whole(Len(v)))

\* Series.mean(): missing values skipped
series_mean(xs) == mean_of_present(dropna(xs))

\* the squared deviations of the values v from m
squared_deviations(v, m) == [i \in 1..Len(v) |-> FSquare(FSub(v[i], m))]

\* mutant: the population variance (denominator N)
var_of_present_population(v) ==
  IF Len(v) < 1 THEN NaN
  ELSE FDiv(SeqSum(squared_deviations(v, mean_of_present(v))), Whole(Len(v)))

\* the sample variance (denominator N - 1) of the values present, NaN for fewer than 2
var_of_present(v) ==
  IF Len(v) < 2 THEN NaN
  ELSE FDiv(SeqSum(squared_deviations(v, mean_of_present(v))), Whole(Len(v) - 1))

\* Series.var(): missing values skipped, ddof = 1
series_var(xs) == var_of_present(dropna(xs))

\* n rows of a group, measurements alternating lo, hi
GroupRows(label, n, lo, hi) ==
  [i \in 1..n |-> [label |-> label, value |-> Whole(IF i % 2 = 1 THEN lo ELSE hi)]]

\* m rows of a group whose measurement is missing
MissingRows(label, m) == [i \in 1..m |-> [label |-> label, value |-> NaN]]

\* sizes of a group: none, too few for a variance, a few, and around MaxRows
GroupSizes == {0, 1, 2, 3, 5, MaxRows - 1, MaxRows}

\* the tables the estimators are run on: Class A, Class B and one row of neither
Tables ==
  {GroupRows("A", nA, baseA, baseA + spreadA) \o MissingRows("A", m)
     \o GroupRows("B", nB, 1, 1 + spreadB) \o MissingRows("B", m)
     \o <<[label |-> "other", value |-> Zero]>> :
   nA \in GroupSizes, nB \in GroupSizes, m \in 0..MaxMissing,
   baseA \in 0..MaxVal, spreadA \in 0..MaxVal, spreadB \in 0..MaxVal}

\* p-values of a normality test: one below and one above 0.05
PValues == {Fin(1, 100), Fin(1, 2)}

Domains == {"Sports", "Education", "Finance", "Healthcare", "Other"}

\* local variables of an estimator before any is assigned
NoLocals ==
  [mean_a |-> Nil, mean_b |-> Nil, var_a |-> Nil, var_b |-> Nil, std_a |-> Nil,
   std_b |-> Nil, kappa |-> Nil, delta |-> Nil, rho |-> Nil, sef |-> Nil,
   improvement_percent |-> Nil, cohens_d |-> Nil, applicability_score |-> -1,
   quadrant |-> "", snr_absolute |-> Nil, snr_relative |-> Nil,
   bootstrap_needed |-> ""]

----------------------------------------------------------------------------
(* validate_sef_framework.py, validate_multi_domain_sef.py: the estimators *)

\* if len(class_a) < 10 or len(class_b) < 10
MinSampleSize == 10

\* if len(class_a) >= 20 and len(class_b) >= 20
AdequateSampleSize == 20

\* mutant: the samples are rejected below 2 observations only
insufficient_sample_below_two(a, b) == Len(a) < 2 \/ Len(b) < 2

insufficient_sample(a, b) == Len(a) < MinSampleSize \/ Len(b) < MinSampleSize

\* mutant: the ratio of the standard deviations
variance_ratio_of_stds(var_a, var_b) == FDiv(np_sqrt(var_b), np_sqrt(var_a))

\* kappa = var_b / var_a
variance_ratio(var_a, var_b) == FDiv(var_b, var_a)

\* mutant: the signed standardized difference
signal_separation_signed(mean_a, mean_b, std_a) == FDiv(FSub(mean_a, mean_b), std_a)

\* delta = abs(mean_a - mean_b) / std_a
signal_separation(mean_a, mean_b, std_a) == FDiv(FAbs(FSub(mean_a, mean_b)), std_a)

\* estimated_rho of validate_sef_framework
estimated_rho == Fin(1, 5)

\* estimated_rho of validate_domain_sef by domain_name
domain_rho(domain_name) ==
  CASE domain_name = "Sports" -> Fin(15, 100)
    [] domain_name = "Education" -> Fin(25, 100)
    [] domain_name = "Finance" -> Fin(30, 100)
    [] domain_name = "Healthcare" -> Fin(20, 100)
    [] OTHER -> Fin(20, 100)

\* mean_a, mean_b, var_a, var_b = class_a.mean(), class_b.mean(), class_a.var(), ...
group_moments(a, b) ==
  [NoLocals EXCEPT !.mean_a = series_mean(a), !.mean_b = series_mean(b),
                   !.var_a = series_var(a), !.var_b = series_var(b)]

\* std_a, std_b: class_a.std() is the square root of class_a.var()
group_stds(s) == [s EXCEPT !.std_a = np_sqrt(s.var_a), !.std_b = np_sqrt(s.var_b)]

\* the SEF parameters kappa and delta
sef_parameters(s) ==
  [s EXCEPT !.kappa = variance_ratio(s.var_a, s.var_b),
            !.delta = signal_separation(s.mean_a, s.mean_b, s.std_a)]

\* sef = calculate_sef(kappa, estimated_rho)
sef_calculation(s, rho) == [s EXCEPT !.rho = rho, !.sef = calculate_sef(s.kappa, rho)]

\* improvement_percent = (sef - 1) * 100
sef_improvement(s) ==
  [s EXCEPT !.improvement_percent = FMul(FSub(s.sef, One), Whole(100))]

\* pooled_std = np.sqrt(((n_a - 1) * var_a + (n_b - 1) * var_b) / (n_a + n_b - 2))
pooled_std(s, n_a, n_b) ==
  np_sqrt(FDiv(FAdd(FMul(Whole(n_a - 1), s.var_a), FMul(Whole(n_b - 1), s.var_b)),
               Whole(n_a + n_b - 2)))

\* cohens_d = abs(mean_a - mean_b) / pooled_std
effect_size(s, n_a, n_b) ==
  [s EXCEPT !.cohens_d = FDiv(FAbs(FSub(s.mean_a, s.mean_b)), pooled_std(s, n_a, n_b))]

\* applicability_score: one point per criterion met
applicability(s, n_a, n_b, p_a, p_b) ==
  [s EXCEPT !.applicability_score =
     (IF n_a >= AdequateSampleSize /\ n_b >= AdequateSampleSize THEN 1 ELSE 0)
     + (IF FLe(Fin(1, 2), s.kappa) /\ FLe(s.kappa, Whole(5)) THEN 1 ELSE 0)
     + (IF FGt(s.delta, Fin(1, 10)) THEN 1 ELSE 0)
     + (IF FGt(p_a, Fin(5, 100)) /\ FGt(p_b, Fin(5, 100)) THEN 1 ELSE 0)
     + (IF FGt(s.cohens_d, Fin(2, 10)) THEN 1 ELSE 0)]

\* the statistics, parameters, SEF and applicability score both validators compute
sef_locals(a, b, rho, p_a, p_b) ==
  applicability(
    effect_size(
      sef_improvement(sef_calculation(sef_parameters(group_stds(group_moments(a, b))), rho)),
      Len(a), Len(b)),
    Len(a), Len(b), p_a, p_b)

\* the statements of a validator in the order of the source: the partition
\* and dropna, the statistics and parameters, sef = calculate_sef(kappa,
\* estimated_rho), then shapiro / kstest on both groups, then the return of
\* the result dict
validation_steps == <<"partition", "estimate", "sef_compute", "normality_test", "emit">>

\* a call that rejects its groups prints the diagnostic and returns None
rejected_steps == <<"partition", "emit">>

\* the body shared by validate_sef_framework and validate_domain_sef; the p-values
\* are what shapiro (or kstest) gives when the function gets to call it
Validate(name, table, rho) ==
  LET a == dropna(partition(table, "A"))
      b == dropna(partition(table, "B"))
  IN  /\ fn = "none"
      /\ fn' = name
      /\ df' = table
      /\ class_a' = a
      /\ class_b' = b
      /\ IF insufficient_sample(a, b)
         THEN /\ printed' = {"INSUFFICIENT SAMPLE SIZE"}
              /\ est' = NoLocals
              /\ ret' = "None"
              /\ steps' = rejected_steps
         ELSE /\ printed' = {"SEF Parameters", "SEF Calculation", "Statistical Validation"}
              /\ \E p_a \in PValues, p_b \in PValues : est' = sef_locals(a, b, rho, p_a, p_b)
              /\ ret' = "dict"
              /\ steps' = validation_steps
      /\ UNCHANGED <<nonEstVars, main>>

\* validate_sef_framework(df, class_a_col, class_a_value, class_b_value, measurement_col)
ValidateSefFramework(table) ==
  Validate("validate_sef_framework", table, estimated_rho)

\* validate_domain_sef(df, domain_name, class_col, class_a, class_b, measurement_col, ...)
ValidateDomainSef(table, domain_name) ==
  Validate("validate_domain_sef", table, domain_rho(domain_name))

----------------------------------------------------------------------------
(* variance_asymmetry_quadrant_analysis.py, comprehensive_framework_validation.py *)

delta_threshold == Fin(1, 2)

kappa_threshold == One

\* delta = (mean_a - mean_b) / std_a
standardized_difference(mean_a, mean_b, std_a) == FDiv(FSub(mean_a, mean_b), std_a)

\* kappa = std_b / std_a
std_ratio(std_a, std_b) == FDiv(std_b, std_a)

quadrant_of(delta, kappa) ==
  IF FGt(delta, delta_threshold)
  THEN (IF FLt(kappa, kappa_threshold) THEN "Q1" ELSE "Q2")
  ELSE (IF FLt(kappa, kappa_threshold) THEN "Q3" ELSE "Q4")

\* the framework parameters delta and kappa of both scripts
framework_parameters(s) ==
  [s EXCEPT !.delta = standardized_difference(s.mean_a, s.mean_b, s.std_a),
            !.kappa = std_ratio(s.std_a, s.std_b)]

\* the statistics and parameters of both scripts
framework_locals(a, b) == framework_parameters(group_stds(group_moments(a, b)))

\* signal = (mean_a - mean_b) ** 2
signal_of(s) == FSquare(FSub(s.mean_a, s.mean_b))

\* the quadrant and the two signal-to-noise ratios
quadrant_analysis(s, signal) ==
  [s EXCEPT !.quadrant = quadrant_of(s.delta, s.kappa),
            !.snr_absolute = FDiv(signal, s.var_a),
            !.snr_relative = FDiv(signal, FAdd(s.var_a, s.var_b))]

\* what analyze_variance_asymmetry_quadrant computes from the two groups
quadrant_locals(s) == quadrant_analysis(s, signal_of(s))

\* analyze_variance_asymmetry_quadrant(): the CSV is there (table) or not
AnalyzeVarianceAsymmetryQuadrant(found, table) ==
  /\ fn = "none"
  /\ fn' = "analyze_variance_asymmetry_quadrant"
  /\ IF ~found
     THEN /\ printed' = {"Dataset not found"}
          /\ UNCHANGED <<df, class_a, class_b, est>>
          /\ ret' = "None"
     ELSE /\ df' = table
          /\ class_a' = partition(table, "A")
          /\ class_b' = partition(table, "B")
          /\ est' = quadrant_locals(framework_locals(partition(table, "A"),
                                                     partition(table, "B")))
          /\ printed' = {"STANDARDIZED PARAMETERS", "QUADRANT CLASSIFICATION"}
          /\ ret' = "tuple"
  /\ UNCHANGED <<nonEstVars, main, steps>>

\* apply_competitive_framework(dataset_name, dataset_info), up to the framework
\* parameters (lines 152-181); the model training that follows is not modelled
ApplyCompetitiveFramework(table) ==
  LET a == partition(table, "A")
      b == partition(table, "B")
  IN  /\ fn = "none"
      /\ fn' = "apply_competitive_framework"
      /\ df' = table
      /\ class_a' = a
      /\ class_b' = b
      /\ est' = framework_locals(a, b)
      /\ printed' = {"Framework Parameters"}
      /\ ret' = "pending"
      /\ UNCHANGED <<nonEstVars, main, steps>>

----------------------------------------------------------------------------
(* bootstrap_analysis.py *)

\* var_a, var_b, std_a, std_b and kappa = std_b / std_a of analyze_bootstrap_necessity
bootstrap_variances(a, b) ==
  [NoLocals EXCEPT !.var_a = series_var(a), !.var_b = series_var(b)]

bootstrap_kappa(s) == [s EXCEPT !.kappa = std_ratio(s.std_a, s.std_b)]

\* sample_imbalance = len(class_a) / len(class_b), for len(class_b) > 0
sample_imbalance(a, b) == Fin(Len(a), Len(b))

\* bootstrap_needed: sample_imbalance > 3, variance_imbalance > 100 or < 0.01,
\* or len(class_b) < 5
bootstrap_decision(imbalance, variance_imbalance, n_b) ==
  \/ FGt(imbalance, Whole(3))
  \/ FGt(variance_imbalance, Whole(100))
  \/ FLt(variance_imbalance, Fin(1, 100))
  \/ n_b < 5

bootstrap_locals(s, a, b) ==
  [s EXCEPT !.bootstrap_needed =
     IF bootstrap_decision(sample_imbalance(a, b), FDiv(s.var_a, s.var_b), Len(b))
     THEN "True" ELSE "False"]

\* analyze_bootstrap_necessity(): the CSV is there (table) or not. The groups are
\* the rows of the table; len(class_a) / len(class_b) is a division of Python
\* integers and raises ZeroDivisionError for an empty Class B.
AnalyzeBootstrapNecessity(found, table) ==
  /\ fn = "none"
  /\ fn' = "analyze_bootstrap_necessity"
  /\ IF ~found
     THEN /\ printed' = {"Dataset not found"}
          /\ UNCHANGED <<df, class_a, class_b, est>>
          /\ ret' = "None"
     ELSE /\ df' = table
          /\ class_a' = partition(table, "A")
          /\ class_b' = partition(table, "B")
          /\ IF Len(partition(table, "B")) = 0
             THEN /\ printed' = {"CURRENT SAMPLE SIZE ANALYSIS"}
                  /\ est' = NoLocals
                  /\ ret' = "ZeroDivisionError"
             ELSE /\ printed' = {"CURRENT SAMPLE SIZE ANALYSIS", "Variance Analysis",
                                 "BOOTSTRAP RECOMMENDATION", "RECOMMENDATION SUMMARY"}
                  /\ est' = bootstrap_locals(
                              bootstrap_kappa(group_stds(
                                bootstrap_variances(partition(table, "A"),
                                                    partition(table, "B")))),
                              partition(table, "A"), partition(table, "B"))
                  /\ ret' = "tuple"
  /\ UNCHANGED <<nonEstVars, main, steps>>

\* the functions whose script unpacks their result in its __main__ block
UnpackingScripts == {"analyze_variance_asymmetry_quadrant", "analyze_bootstrap_necessity"}

\* if __name__ == "__main__": df, ... = analyze_...(); if df is not None: print(...)
\* An exception of the function propagates; a None result cannot be unpacked.
MainBlock ==
  /\ fn \in UnpackingScripts
  /\ main = ""
  /\ main' = CASE ret = "tuple" -> "done"
               [] ret = "None" -> "TypeError"
               [] OTHER -> ret
  /\ printed' = IF ret = "tuple" THEN printed \cup {"SUMMARY"} ELSE printed
  /\ UNCHANGED <<fn, nonEstVars, df, class_a, class_b, est, ret, steps>>

----------------------------------------------------------------------------
(* Normality checkers: validate_clinical_data.py, apply_sef_to_cms_data.py,
   validate_scraped_datasets.py *)

\* if len(data) >= 3 and len(data) <= 5000
ShapiroMin == 3
ShapiroMax == 5000

\* if len(data) >= 8 (D'Agostino, Jarque-Bera)
OmnibusMin == 8

\* if len(clean_data) < 3 (test_normality_and_log_transform)
LogTransformMin == 3

\* if len(col_data) < 10: continue (test_normality_assumptions)
ColumnMin == 10

TestNames == {"shapiro", "kstest", "normaltest", "jarque_bera"}

\* no test has a p-value
NoResults == [t \in TestNames |-> Nil]

\* a call that raised instead of returning a (statistic, p-value) pair
Raised == [k |-> "raised", n |-> 0, d |-> 0]

\* p > 0.05; false for NaN
passes(p) == p.k = "fin" /\ FGt(p, Fin(5, 100))

\* what scipy's test gives on n observations: a p-value; below the test's minimum
\* size it raises ValueError or, in later releases, returns NaN with a warning.
\* shapiro above 5000 observations only warns and returns a p-value.
scipy_outcomes(t, n) ==
  CASE t = "shapiro" /\ n < ShapiroMin -> {Raised, NaN}
    [] t = "normaltest" /\ n < OmnibusMin -> {Raised, NaN}
    [] OTHER -> PValues

\* what a test inside try/except may do: return a p-value or raise
guarded_outcomes == PValues \cup {Raised}

\* sample sizes around every threshold of the checkers
NormalitySizes ==
  {0, ShapiroMin - 1, ShapiroMin, OmnibusMin - 1, OmnibusMin, ColumnMin - 1, ColumnMin,
   ShapiroMax, ShapiroMax + 1}

\* test_normality(data) of validate_clinical_data.py: each test behind its size test
TestNormality(n, p_sw, p_da, p_jb) ==
  /\ fn' = "test_normality"
  /\ data_len' = n
  /\ invoked' = (IF n >= ShapiroMin /\ n <= ShapiroMax THEN {"shapiro"} ELSE {})
                \cup (IF n >= OmnibusMin THEN {"normaltest", "jarque_bera"} ELSE {})
  /\ results' = [t \in TestNames |->
                   CASE t = "shapiro" /\ n >= ShapiroMin /\ n <= ShapiroMax -> p_sw
                     [] t = "normaltest" /\ n >= OmnibusMin -> p_da
                     [] t = "jarque_bera" /\ n >= OmnibusMin -> p_jb
                     [] OTHER -> Nil]
  /\ is_normal' = ""
  /\ log_transformed' = ""
  /\ norm_ret' = "dict"
  /\ UNCHANGED nonNormVars

\* all(p > 0.05 for p in [shapiro_p, ks_p, dagostino_p])
all_pass(p_sw, p_ks, p_da) == passes(p_sw) /\ passes(p_ks) /\ passes(p_da)

\* test_normality_and_log_transform(data, measure_name): n values are left by
\* dropna(); positive is (clean_data > 0).all(); l_sw, l_ks, l_da are the p-values
\* of the log-transformed data, where normaltest behaves as on the data itself
TestNormalityAndLogTransform(n, positive, p_sw, p_ks, o_da, l_sw, l_ks, l_da) ==
  /\ fn' = "test_normality_and_log_transform"
  /\ data_len' = n
  /\ IF n < LogTransformMin
     THEN /\ invoked' = {}
          /\ results' = NoResults
          /\ is_normal' = "False"
          /\ log_transformed' = "False"
          /\ norm_ret' = "tuple"
     ELSE /\ invoked' = {"shapiro", "kstest", "normaltest"}
          /\ IF o_da = Raised
             THEN /\ results' = [NoResults EXCEPT !["shapiro"] = p_sw, !["kstest"] = p_ks]
                  /\ is_normal' = ""
                  /\ log_transformed' = ""
                  /\ norm_ret' = "ValueError"
             ELSE /\ results' = [NoResults EXCEPT !["shapiro"] = p_sw, !["kstest"] = p_ks,
                                                  !["normaltest"] = o_da]
                  /\ is_normal' = IF all_pass(p_sw, p_ks, o_da) THEN "True" ELSE "False"
                  /\ log_transformed' =
                       IF /\ ~all_pass(p_sw, p_ks, o_da)
                          /\ positive
                          /\ all_pass(l_sw, l_ks, IF IsNaN(o_da) THEN NaN ELSE l_da)
                       THEN "True" ELSE "False"
                  /\ norm_ret' = "tuple"
  /\ UNCHANGED nonNormVars

\* the p-value kept for a test inside try/except: np.nan when it raised
kept_p(o) == IF o = Raised THEN NaN ELSE o

\* test_normality_assumptions(data, dataset_name), for one numeric column of n values
TestNormalityAssumptions(n, o_sw, o_ks, o_da) ==
  /\ fn' = "test_normality_assumptions"
  /\ data_len' = n
  /\ IF n < ColumnMin
     THEN /\ invoked' = {}
          /\ results' = NoResults
          /\ is_normal' = ""
     ELSE /\ invoked' = {"shapiro", "kstest", "normaltest"}
          /\ results' = [NoResults EXCEPT !["shapiro"] = kept_p(o_sw),
                                          !["kstest"] = kept_p(o_ks),
                                          !["normaltest"] = kept_p(o_da)]
          /\ is_normal' = IF all_pass(kept_p(o_sw), kept_p(o_ks), kept_p(o_da))
                          THEN "True" ELSE "False"
  /\ log_transformed' = ""
  /\ norm_ret' = "dict"
  /\ UNCHANGED nonNormVars

----------------------------------------------------------------------------
(* Specification of the SEF calculator *)

\* no quadrant assigned yet
NoQuadrants == [delta |-> Nil, kappa |-> Nil, quadrant |-> "", actual_quadrant |-> "",
                parameter_space |-> ""]

\* calculate_sef_parameters not called yet
NoSeries == [n |-> -1, positive |-> FALSE, normal |-> FALSE, log_normal |-> FALSE]
NoParameters == [mayo_data |-> NoSeries, cleveland_data |-> NoSeries,
                 mayo_log |-> FALSE, cleveland_log |-> FALSE,
                 mayo_final |-> "", cleveland_final |-> ""]

Init ==
  /\ fn = "none"
  /\ sefArgs = [kappa |-> Nil, rho |-> Nil]
  /\ sefRet = Nil
  /\ sefDivisor = Nil
  /\ swapRet = Nil
  /\ impParams = [delta |-> Nil, kappa |-> Nil, rho |-> Nil,
                  mayo_std |-> Nil, cleveland_std |-> Nil]
  /\ impRet = [snr_independent |-> Nil, snr_relative |-> Nil, sef |-> Nil]
  /\ logStats = [original_kappa |-> Nil, log_kappa |-> Nil]
  /\ logRet = [original_sef |-> Nil, log_sef |-> Nil]
  /\ df = <<>>
  /\ class_a = <<>>
  /\ class_b = <<>>
  /\ est = NoLocals
  /\ ret = ""
  /\ printed = {}
  /\ main = ""
  /\ data_len = -1
  /\ invoked = {}
  /\ results = NoResults
  /\ is_normal = ""
  /\ log_transformed = ""
  /\ norm_ret = ""
  /\ fetch_pc = "idle"
  /\ attempts = 0
  /\ requests = 0
  /\ failed_at = -1
  /\ total_measurements = -1
  /\ current_measurements = 0
  /\ page_token = FALSE
  /\ has_studies = FALSE
  /\ loaded_df = <<>>
  /\ additional_studies = <<>>
  /\ fetch_printed = {}
  /\ fetch_ret = ""
  /\ steps = <<>>
  /\ cms_pc = "idle"
  /\ cms_index = 0
  /\ collected_data = {}
  /\ cms_printed = {}
  /\ cms_ret = ""
  /\ synth_pc = "idle"
  /\ needed_measurements = 0
  /\ remaining_measurements = 0
  /\ study_id = 0
  /\ synthetic_studies = <<>>
  /\ create_pc = "idle"
  /\ df_real = <<>>
  /\ final_df = <<>>
  /\ create_ret = ""
  /\ quadrants = NoQuadrants
  /\ sef_params = NoParameters
  /\ report_pc = "idle"
  /\ validation_results = <<>>
  /\ report_printed = {}
  /\ report_ret = ""
  /\ zip_pc = "idle"
  /\ zip_index = 0
  /\ disk = {}
  /\ zip_written = {}
  /\ successful_downloads = <<>>

NextSEF ==
  \/ \E kappa \in Kappas, rho \in Rhos : CalculateSef(kappa, rho)
  \/ CalculateSefSwapped
  \/ \E delta \in Deltas, mayo_std \in Stds, cleveland_std \in Stds, rho \in UnitRhos :
       CalculateSefImprovement(delta, mayo_std, cleveland_std, rho)
  \/ \E original_kappa \in Kappas, log_kappa \in Kappas :
       AnalyzeSefImprovements(original_kappa, log_kappa)

SpecSEF == Init /\ [][NextSEF]_vars

----------------------------------------------------------------------------
(* Specification of the parameter estimators *)

NextEstimator ==
  \/ fn = "none" /\ \E table \in Tables : ValidateSefFramework(table)
  \/ fn = "none" /\ \E table \in Tables, domain_name \in Domains :
                      ValidateDomainSef(table, domain_name)
  \/ fn = "none" /\ \E found \in BOOLEAN, table \in Tables :
                      AnalyzeVarianceAsymmetryQuadrant(found, table)
  \/ fn = "none" /\ \E table \in Tables : ApplyCompetitiveFramework(table)
  \/ fn = "none" /\ \E found \in BOOLEAN, table \in Tables :
                      AnalyzeBootstrapNecessity(found, table)
  \/ MainBlock

SpecEstimator == Init /\ [][NextEstimator]_vars

----------------------------------------------------------------------------
(* Specification of the normality checkers *)

NextNormality ==
  \/ fn = "none" /\ \E n \in NormalitySizes, p_sw \in PValues, p_da \in PValues,
                       p_jb \in PValues : TestNormality(n, p_sw, p_da, p_jb)
  \/ fn = "none" /\ \E n \in NormalitySizes, positive \in BOOLEAN,
                       p_sw \in PValues, p_ks \in PValues, l_sw \in PValues,
                       l_ks \in PValues, l_da \in PValues :
                      \E o_da \in scipy_outcomes("normaltest", n) :
                        TestNormalityAndLogTransform(n, positive, p_sw, p_ks, o_da,
                                                     l_sw, l_ks, l_da)
  \/ fn = "none" /\ \E n \in NormalitySizes, o_sw \in guarded_outcomes,
                       o_ks \in guarded_outcomes, o_da \in guarded_outcomes :
                      TestNormalityAssumptions(n, o_sw, o_ks, o_da)

SpecNormality == Init /\ [][NextNormality]_vars

----------------------------------------------------------------------------
(* Properties of the SEF calculator *)

SefCalled == fn \in {"calculate_sef", "calculate_sef_swapped"}

\* the closed formula's denominator 1 + kappa - 2*sqrt(kappa)*rho, written out
FormulaDenominator(kappa, rho) ==
  FSub(FAdd(One, kappa), FMul(Two, FMul(np_sqrt(kappa), rho)))

\* what a call may produce besides an explicit error: any float, NaN included
IsNumeric(x) == x.k \in {"fin", "root", "nroot", "inf", "ninf", "nan"}

\* C1: for kappa > 0 and any rho, calculate_sef returns +inf exactly when the
\* denominator is <= 0, otherwise (1 + kappa) / denominator, and line 33 never
\* divides by a zero or negative denominator.
C1_GuardedFormula ==
  (SefCalled /\ FGt(sefArgs.kappa, Zero)) =>
    LET den == FormulaDenominator(sefArgs.kappa, sefArgs.rho)
    IN  /\ (sefRet = Inf) <=> FLe(den, Zero)
        /\ FGt(den, Zero) => sefRet = FDiv(FAdd(One, sefArgs.kappa), den)
        /\ sefDivisor = Nil \/ FGt(sefDivisor, Zero)

\* C1 witness: a call with kappa > 0 whose denominator is negative has returned +inf
\* without dividing.
C1_Witness ==
  /\ fn = "calculate_sef"
  /\ FGt(sefArgs.kappa, Zero)
  /\ FLt(FormulaDenominator(sefArgs.kappa, sefArgs.rho), Zero)
  /\ sefRet = Inf
  /\ sefDivisor = Nil

\* C2: calculate_sef called with kappa <= 0 ends in an explicit error and returns
\* no numeric value (finite, negative or NaN).
C2_NonPositiveKappaIsError ==
  (SefCalled /\ FLe(sefArgs.kappa, Zero)) => ~IsNumeric(sefRet)

C4_ImprovementIsSef ==
  (/\ fn = "calculate_sef_improvement"
   /\ FGt(impParams.mayo_std, Zero)
   /\ FGt(impParams.cleveland_std, Zero)) =>
    impRet.sef = calculate_sef(impParams.kappa, impParams.rho)

C6_UnitKappa ==
  (SefCalled /\ sefArgs.kappa = One /\ sefArgs.rho \in UnitRhos) =>
    /\ FLt(sefArgs.rho, One) => sefRet = FDiv(One, FSub(One, sefArgs.rho))
    /\ sefArgs.rho = One => sefRet = Inf

\* C6 witness: calculate_sef(1, 1/2) has returned 2.
C6_Witness ==
  /\ fn = "calculate_sef"
  /\ sefArgs.kappa = One
  /\ sefArgs.rho = Fin(1, 2)
  /\ sefRet = Two

\* C7: for kappa > 0 and rho >= 0 with a positive denominator calculate_sef returns a
\* value >= 1, and for kappa > 0 it never returns a negative value.
C7_AtLeastOne ==
  (SefCalled /\ FGt(sefArgs.kappa, Zero)) =>
    /\ (/\ FLe(Zero, sefArgs.rho)
        /\ FGt(FormulaDenominator(sefArgs.kappa, sefArgs.rho), Zero)) =>
         FLe(One, sefRet)
    /\ ~FLt(sefRet, Zero)

\* C7 witness: a call with kappa > 0, rho > 0 and a positive denominator has returned
\* a finite value above 1.
C7_Witness ==
  /\ fn = "calculate_sef"
  /\ FGt(sefArgs.kappa, Zero)
  /\ FGt(sefArgs.rho, Zero)
  /\ FGt(FormulaDenominator(sefArgs.kappa, sefArgs.rho), Zero)
  /\ sefRet.k = "fin"
  /\ FGt(sefRet, One)

----------------------------------------------------------------------------
(* Properties of the parameter estimators *)

\* an estimator has read its table
TableRead == fn # "none" /\ df # <<>>

\* the estimator has derived kappa and delta from two groups with var_A > 0
ParametersDerived ==
  /\ TableRead
  /\ est.kappa # Nil
  /\ est.delta # Nil
  /\ IsFinite(est.var_a)
  /\ IsFinite(est.var_b)
  /\ FGt(est.var_a, Zero)

\* the number of valid (non-missing) observations of the smaller group
ValidObservations ==
  IF Len(dropna(class_a)) < Len(dropna(class_b))
  THEN Len(dropna(class_a)) ELSE Len(dropna(class_b))

\* C8: every script that derives kappa from two groups computes var_B / var_A, the
\* ratio of the sample variances (not of the standard deviations).
C8_KappaIsVarianceRatio ==
  ParametersDerived => est.kappa = FDiv(series_var(class_b), series_var(class_a))

\* C9: the delta of the estimators is the signed standardized difference
\* (mean_A - mean_B) / sqrt(var_A), negative whenever mean_A < mean_B.
C9_DeltaIsSignedStandardized ==
  ParametersDerived =>
    /\ est.delta = FDiv(FSub(series_mean(class_a), series_mean(class_b)),
                        np_sqrt(series_var(class_a)))
    /\ FLt(est.mean_a, est.mean_b) => FLt(est.delta, Zero)

\* C10: the estimator rejects its input for sample size exactly when a group has
\* fewer than 2 valid observations; rejected, it computes no parameters; with at
\* least 2 in each group and var_A > 0 it returns kappa and delta.
C10_RejectsBelowTwoObservations ==
  TableRead =>
    /\ ("INSUFFICIENT SAMPLE SIZE" \in printed) <=> (ValidObservations < 2)
    /\ ValidObservations < 2 => (est.kappa = Nil /\ est.delta = Nil)
    /\ (ValidObservations >= 2 /\ FGt(series_var(class_a), Zero)) =>
         (IsFinite(est.kappa) /\ IsFinite(est.delta))

\* the validator went past its sample-size test
NotRejected == TableRead /\ "INSUFFICIENT SAMPLE SIZE" \notin printed

\* C11: when Group A's sample variance is 0, estimation ends in an explicit
\* degenerate-variance failure: no kappa, delta or SEF (no infinity, no NaN) is
\* produced or returned.
C11_ZeroVarianceFails ==
  (TableRead /\ FEq(series_var(class_a), Zero)) =>
    /\ est.kappa = Nil
    /\ est.delta = Nil
    /\ est.sef = Nil
    /\ ret = "None"

\* a group of the partition is empty: no row carries its label
EmptyGroup == TableRead /\ (Len(class_a) = 0 \/ Len(class_b) = 0)

\* the ways a function or script ends without an unhandled exception
NormalOutcomes == {"None", "dict", "tuple", "pending", "done"}

\* C12: when no row carries one of the two labels, partitioning yields an empty
\* group and every script that partitions by label ends with a printed outcome or a
\* None result, never with an unhandled exception.
C12_EmptyGroupIsNoError ==
  EmptyGroup => (ret \in NormalOutcomes /\ printed # {})

\* the script's input CSV was missing
CsvMissing == fn \in UnpackingScripts /\ "Dataset not found" \in printed

\* C15: when the input CSV is missing the script prints a diagnostic and terminates
\* normally with no result: neither the analysis function nor the __main__ block
\* raises an unhandled exception.
C15_MissingCsvEndsNormally ==
  CsvMissing => (ret = "None" /\ main \in {"", "done"})

----------------------------------------------------------------------------
(* Properties of the normality checkers *)

\* the sample-size precondition of a test: Shapiro-Wilk 3..5000 observations,
\* D'Agostino and Jarque-Bera at least 8, Kolmogorov-Smirnov any
precondition_met(t, n) ==
  CASE t = "shapiro" -> n >= 3 /\ n <= 5000
    [] t \in {"normaltest", "jarque_bera"} -> n >= 8
    [] OTHER -> TRUE

\* a normality checker has run
CheckerRan == data_len >= 0

\* C13: in every normality checker a test whose sample-size precondition is unmet is
\* skipped without raising, and the result holds an entry for a test iff that test
\* ran; a sample of 3 to 7 observations is checked without an exception.
C13_UnmetPreconditionIsSkipped ==
  CheckerRan =>
    /\ norm_ret # "ValueError"
    /\ \A t \in invoked : precondition_met(t, data_len)
    /\ \A t \in TestNames : (results[t] # Nil) <=> (t \in invoked)

\* C14: a group or column is reported as normal iff every normality test that was
\* applicable to it yields p > 0.05; a test that was not applicable or could not run
\* does not by itself make the group non-normal.
C14_NormalIffApplicableTestsPass ==
  (CheckerRan /\ is_normal # "") =>
    ((is_normal = "True") <=>
       \A t \in invoked : (precondition_met(t, data_len) /\ ~IsNaN(results[t]))
                            => passes(results[t]))

(***************************************************************************)
(* The fetch loops of fetch_more_clinical_trials.py, supplement_to_1000.py *)
(* and fetch_final_clinical_trials.py.  One action is one iteration of the *)
(* loop: the requests.get call and everything the body does with its       *)
(* response.  Measurements are counted in units of which                   *)
(* target_measurements make up the target of 1000.                         *)
(***************************************************************************)
target_measurements == 3
MaxGain == 2

FetchLoops == {"fetch_more_clinical_trials", "supplement_to_1000",
               "fetch_final_trials_to_reach_target"}

\* a mutant of max_attempts: the for loop of fetch_more_clinical_trials runs once more
max_attempts_one_more(f) ==
  CASE f = "fetch_more_clinical_trials" -> 51
    [] f = "supplement_to_1000" -> 5
    [] OTHER -> 10

max_attempts(f) ==
  CASE f = "fetch_more_clinical_trials" -> 50
    [] f = "supplement_to_1000" -> 5
    [] OTHER -> 10

\* what the HTTP call of one iteration gives: a 200 response with or without
\* the key 'studies', another status code, or an exception
HttpOutcomes == {"studies", "no_studies", "status", "raised"}

\* a mutant of after_failure: the handler goes on with the next iteration
after_failure_continue(f, n) ==
  [pc |-> IF n + 1 < max_attempts(f) THEN "loop" ELSE "after_loop", attempts |-> n + 1]

\* the break that follows the diagnostic of a failed call
after_failure(f, n) == [pc |-> "after_loop", attempts |-> n]

\* the else branch of the status check and the except clause: print, then break
FailedCall(message) ==
  /\ fetch_printed' = fetch_printed \cup {message}
  /\ failed_at' = IF failed_at = -1 THEN requests' ELSE failed_at
  /\ fetch_pc' = after_failure(fn, attempts).pc
  /\ attempts' = after_failure(fn, attempts).attempts
  /\ UNCHANGED <<total_measurements, current_measurements, page_token, has_studies>>

\* the branch of a 200 response without 'studies': print, then break
NoStudies ==
  /\ fetch_printed' = fetch_printed \cup {"No studies found in response"}
  /\ fetch_pc' = "after_loop"
  /\ UNCHANGED <<failed_at, attempts, total_measurements, current_measurements,
                 page_token, has_studies>>

FetchMoreClinicalTrials ==
  /\ fn' = "fetch_more_clinical_trials"
  /\ fetch_pc' = "loop"
  /\ fetch_printed' = {"FETCHING MORE CLINICAL TRIALS"}
  /\ UNCHANGED <<attempts, requests, failed_at, total_measurements, current_measurements,
                 page_token, has_studies, fetch_ret, supVars, nonFetchVars>>

FetchMoreBatch(outcome, gain, token) ==
  /\ fn = "fetch_more_clinical_trials"
  /\ fetch_pc = "loop"
  /\ requests' = requests + 1
  /\ CASE outcome = "raised" -> FailedCall("Error in batch")
       [] outcome = "status" -> FailedCall("API call failed")
       [] outcome = "no_studies" -> NoStudies
       [] OTHER ->
            /\ has_studies' = (has_studies \/ gain > 0)
            /\ total_measurements' = (IF total_measurements = -1 THEN 0 ELSE total_measurements) + gain
            /\ UNCHANGED <<failed_at, current_measurements>>
            /\ IF total_measurements' >= target_measurements
               THEN /\ fetch_printed' = fetch_printed \cup {"Retrieved", "Reached target"}
                    /\ fetch_pc' = "after_loop"
                    /\ UNCHANGED <<attempts, page_token>>
               ELSE /\ page_token' = token
                    /\ IF ~token
                       THEN /\ fetch_printed' = fetch_printed \cup {"Retrieved", "No more pages available"}
                            /\ fetch_pc' = "after_loop"
                            /\ UNCHANGED attempts
                       ELSE /\ fetch_printed' = fetch_printed \cup {"Retrieved"}
                            /\ attempts' = attempts + 1
                            /\ fetch_pc' = IF attempts' < max_attempts(fn) THEN "loop" ELSE "after_loop"
  /\ UNCHANGED <<fn, fetch_ret, supVars, nonFetchVars>>

\* the sum of the column EnrollmentCount
RECURSIVE enrollment_total(_)
enrollment_total(studies) ==
  IF studies = <<>> THEN 0
  ELSE Head(studies).EnrollmentCount + enrollment_total(Tail(studies))

\* the NCTId values the API knows
StudyIds == {"NCT01", "NCT02", "NCT03"}

\* a study of a response: its NCTId and its enrollment count, 0 for a count
\* that is missing or not positive
ApiStudies == [NCTId : StudyIds, EnrollmentCount : 0..MaxGain]

\* data['studies']: up to two studies, no study twice in one response
StudyBatches ==
  {<<>>} \cup {<<a>> : a \in ApiStudies}
         \cup {pair \in ApiStudies \X ApiStudies : pair[1].NCTId # pair[2].NCTId}

\* the rows of clinical_trials_clean_final.csv: positive counts and pairwise
\* distinct NCTId values
LoadedDatasets ==
  {batch \in StudyBatches : \A i \in 1..Len(batch) : batch[i].EnrollmentCount > 0}

\* extract_study_info(study): the study, or None when the count is missing
\* or not positive
extract_study_info(study) == IF study.EnrollmentCount > 0 THEN study ELSE Nil

\* df['NCTId'].values
nct_ids(rows) == {rows[i].NCTId : i \in 1..Len(rows)}

\* for study in studies: ... the list additional_studies after the loop
RECURSIVE process_studies(_, _, _, _)
process_studies(studies, rows, additional, current) ==
  IF studies = <<>> THEN additional
  ELSE IF /\ extract_study_info(Head(studies)) # Nil
          /\ extract_study_info(Head(studies)).NCTId \notin nct_ids(rows)
       THEN IF current + enrollment_total(Append(additional, Head(studies)))
                 >= target_measurements
            THEN Append(additional, Head(studies))
            ELSE process_studies(Tail(studies), rows, Append(additional, Head(studies)),
                                 current)
       ELSE process_studies(Tail(studies), rows, additional, current)

SupplementTo1000(found, rows) ==
  /\ fn' = "supplement_to_1000"
  /\ IF ~found
     THEN /\ fetch_printed' = {"Clean dataset not found"}
          /\ fetch_ret' = "None"
          /\ fetch_pc' = "returned"
          /\ UNCHANGED <<total_measurements, current_measurements, loaded_df>>
     ELSE /\ fetch_printed' = {"Current measurements"}
          /\ loaded_df' = rows
          /\ current_measurements' = enrollment_total(loaded_df')
          /\ total_measurements' = current_measurements'
          /\ fetch_pc' = IF total_measurements' < target_measurements THEN "loop" ELSE "after_loop"
          /\ UNCHANGED fetch_ret
  /\ UNCHANGED <<attempts, requests, failed_at, page_token, has_studies, additional_studies,
                 nonFetchVars>>

SupplementBatch(outcome, studies) ==
  /\ fn = "supplement_to_1000"
  /\ fetch_pc = "loop"
  /\ requests' = requests + 1
  /\ CASE outcome = "raised" -> FailedCall("Error in batch") /\ UNCHANGED additional_studies
       [] outcome = "status" -> FailedCall("API call failed") /\ UNCHANGED additional_studies
       [] outcome = "no_studies" -> NoStudies /\ UNCHANGED additional_studies
       [] OTHER ->
            /\ additional_studies' =
                 process_studies(studies, loaded_df, additional_studies, current_measurements)
            /\ has_studies' = (additional_studies' # <<>>)
            /\ total_measurements' =
                 current_measurements + enrollment_total(additional_studies')
            /\ UNCHANGED <<failed_at, current_measurements, page_token>>
            /\ IF total_measurements' >= target_measurements
               THEN /\ fetch_printed' = fetch_printed \cup {"Retrieved", "Reached target"}
                    /\ fetch_pc' = "after_loop"
                    /\ UNCHANGED attempts
               ELSE /\ fetch_printed' = fetch_printed \cup {"Retrieved"}
                    /\ attempts' = attempts + 1
                    /\ fetch_pc' = IF attempts' < max_attempts(fn) THEN "loop" ELSE "after_loop"
  /\ UNCHANGED <<fn, fetch_ret, loaded_df, nonFetchVars>>

FetchFinalTrialsToReachTarget(found, current) ==
  /\ fn' = "fetch_final_trials_to_reach_target"
  /\ fetch_printed' = IF found THEN {"Current measurements"} ELSE {"No existing data found"}
  /\ current_measurements' = IF found THEN current ELSE 0
  /\ fetch_pc' = "loop"
  /\ UNCHANGED <<attempts, requests, failed_at, total_measurements, page_token,
                 has_studies, fetch_ret, supVars, nonFetchVars>>

\* total_measurements is first bound when a study is appended, and reading
\* it unbound raises inside the try block
FetchFinalBatch(outcome, added, gain) ==
  /\ fn = "fetch_final_trials_to_reach_target"
  /\ fetch_pc = "loop"
  /\ requests' = requests + 1
  /\ CASE outcome = "raised" -> FailedCall("Error in batch")
       [] outcome = "status" -> FailedCall("API call failed")
       [] outcome = "no_studies" -> NoStudies
       [] outcome = "studies" /\ ~added /\ total_measurements = -1 ->
            /\ fetch_printed' = fetch_printed \cup {"Retrieved", "Error in batch"}
            /\ fetch_pc' = "after_loop"
            /\ UNCHANGED <<failed_at, attempts, total_measurements, current_measurements,
                           page_token, has_studies>>
       [] OTHER ->
            /\ has_studies' = (has_studies \/ added)
            /\ total_measurements' =
                 IF ~added THEN total_measurements
                 ELSE (IF total_measurements = -1 THEN current_measurements ELSE total_measurements) + gain
            /\ UNCHANGED <<failed_at, current_measurements, page_token>>
            /\ IF total_measurements' >= target_measurements
               THEN /\ fetch_printed' = fetch_printed \cup {"Retrieved", "Reached target"}
                    /\ fetch_pc' = "after_loop"
                    /\ UNCHANGED attempts
               ELSE /\ fetch_printed' = fetch_printed \cup {"Retrieved"}
                    /\ attempts' = attempts + 1
                    /\ fetch_pc' = IF attempts' < max_attempts(fn) THEN "loop" ELSE "after_loop"
  /\ UNCHANGED <<fn, fetch_ret, supVars, nonFetchVars>>

\* the statements after the loop: build the table, save it, return
FetchFinish(suitable) ==
  /\ fn \in FetchLoops
  /\ fetch_pc = "after_loop"
  /\ fetch_pc' = "returned"
  /\ fetch_ret' =
       CASE fn = "fetch_more_clinical_trials" ->
              IF has_studies /\ suitable THEN "df" ELSE "None"
         [] fn = "supplement_to_1000" ->
              IF has_studies THEN "combined_df" ELSE "df"
         [] OTHER ->
              IF has_studies THEN "combined_df"
              ELSE IF "No existing data found" \in fetch_printed THEN "None" ELSE "existing_df"
  /\ fetch_printed' = fetch_printed \cup
       {IF fetch_ret' \in {"df", "combined_df"} /\ has_studies THEN "Saved" ELSE "No studies found"}
  /\ UNCHANGED <<fn, attempts, requests, failed_at, total_measurements, current_measurements,
                 page_token, has_studies, supVars, nonFetchVars>>

NextFetch ==
  \/ fn = "none" /\ FetchMoreClinicalTrials
  \/ \E outcome \in HttpOutcomes, gain \in 0..MaxGain, token \in BOOLEAN :
       FetchMoreBatch(outcome, gain, token)
  \/ fn = "none" /\ \E found \in BOOLEAN, rows \in LoadedDatasets :
       SupplementTo1000(found, rows)
  \/ \E outcome \in HttpOutcomes, studies \in StudyBatches :
       SupplementBatch(outcome, studies)
  \/ fn = "none" /\ \E found \in BOOLEAN, current \in 0..target_measurements :
       FetchFinalTrialsToReachTarget(found, current)
  \/ \E outcome \in HttpOutcomes, added \in BOOLEAN, gain \in 0..MaxGain :
       FetchFinalBatch(outcome, added, gain)
  \/ \E suitable \in BOOLEAN : FetchFinish(suitable)

SpecFetch == Init /\ [][NextFetch]_vars

\* a call of the running fetch loop came back with a status other than 200
\* or raised
CallFailed == failed_at # -1

\* C16: in each fetch loop, once an HTTP call has returned a non-200 status or
\* raised, the failure is caught and printed and no further HTTP request is
\* issued in that run: the number of requests stays the one of the failed call
C16_NoRequestAfterFailure ==
  CallFailed =>
    /\ requests = failed_at
    /\ fetch_pc \in {"after_loop", "returned"}
    /\ fetch_printed \cap {"API call failed", "Error in batch"} # {}

\* a run that failed on its third request and has returned
C16_FailedRunReturned ==
  /\ CallFailed
  /\ failed_at = 3
  /\ fetch_pc = "returned"

(***************************************************************************)
(* collect_cms_hospital_data.py: the collection loop over the six datasets *)
(* and the statements after it.  One action is one iteration of the loop.  *)
(***************************************************************************)
datasets == <<"hospital_general_info", "readmission_deaths", "patient_experience",
              "timely_effective_care", "complications_deaths", "payment_value">>

\* what one iteration meets: a response with 'data' saved to its file, a
\* response with 'data' whose to_csv raises after the table was stored, a
\* response without 'data', or an exception before the table is stored
CollectOutcomes == {"data", "save_raised", "no_data", "raised"}

\* the labels pd.DataFrame(rows) gives the columns: strings for rows that are
\* dicts, integers for rows that are lists
ColumnLabels == {"str", "int"}

\* combine_cms_datasets(collected_data): the base table, None without it
combine_cms_datasets(collected) ==
  IF "hospital_general_info" \in collected THEN "base_df" ELSE "None"

\* analyze_cms_data_for_sef(df) calls col.lower() on every column label
analyze_cms_data_for_sef(labels) ==
  IF labels = "int" THEN "AttributeError" ELSE "dict"

CollectCmsHospitalData ==
  /\ fn' = "collect_cms_hospital_data"
  /\ cms_pc' = "loop"
  /\ cms_printed' = {"CMS HOSPITAL COMPARE DATA COLLECTION"}
  /\ UNCHANGED <<cms_index, collected_data, cms_ret, nonCmsVars>>

CollectDataset(outcome) ==
  /\ fn = "collect_cms_hospital_data"
  /\ cms_pc = "loop"
  /\ cms_index' = cms_index + 1
  /\ collected_data' =
       IF outcome \in {"data", "save_raised"}
       THEN collected_data \cup {datasets[cms_index']}
       ELSE collected_data
  /\ cms_printed' = cms_printed \cup
       CASE outcome = "data" -> {"Collecting", "Retrieved", "Saved to"}
         [] outcome = "save_raised" -> {"Collecting", "Retrieved", "Error collecting"}
         [] outcome = "no_data" -> {"Collecting", "No data found"}
         [] OTHER -> {"Collecting", "Error collecting"}
  /\ cms_pc' = IF cms_index' < Len(datasets) THEN "loop" ELSE "after_loop"
  /\ UNCHANGED <<fn, cms_ret, nonCmsVars>>

\* if collected_data: combine, save, analyze, return; else print and return None
CollectFinish(labels) ==
  /\ fn = "collect_cms_hospital_data"
  /\ cms_pc = "after_loop"
  /\ cms_pc' = "returned"
  /\ IF collected_data = {}
     THEN /\ cms_printed' = cms_printed \cup {"No data collected successfully"}
          /\ cms_ret' = "None"
     ELSE IF combine_cms_datasets(collected_data) = "None"
     THEN /\ cms_printed' = cms_printed \cup {"Combining CMS datasets", "No base dataset available"}
          /\ cms_ret' = "AttributeError"
     ELSE IF analyze_cms_data_for_sef(labels) = "AttributeError"
     THEN /\ cms_printed' = cms_printed \cup
               {"Combining CMS datasets", "Base dataset", "Combined dataset saved", "Total hospitals"}
          /\ cms_ret' = "AttributeError"
     ELSE /\ cms_printed' = cms_printed \cup
               {"Combining CMS datasets", "Base dataset", "Combined dataset saved",
                "Total hospitals", "Data quality assessment"}
          /\ cms_ret' = "combined_data"
  /\ UNCHANGED <<fn, cms_index, collected_data, nonCmsVars>>

NextCms ==
  \/ fn = "none" /\ CollectCmsHospitalData
  \/ \E outcome \in CollectOutcomes : CollectDataset(outcome)
  \/ \E labels \in ColumnLabels : CollectFinish(labels)

SpecCms == Init /\ [][NextCms]_vars

\* collect_cms_hospital_data has ended
CollectionEnded == fn = "collect_cms_hospital_data" /\ cms_pc = "returned"

\* C17: collect_cms_hospital_data never raises on a collection failure: for
\* every subset of the six datasets fetched successfully, the subsets without
\* 'hospital_general_info' included, it ends with a printed diagnostic and
\* either the combined table or None
C17_CollectionNeverRaises ==
  CollectionEnded =>
    /\ cms_ret \in {"combined_data", "None"}
    /\ cms_printed \cap {"Combined dataset saved", "No data collected successfully",
                         "No base dataset available"} # {}

\* the position of a step in the order of execution, 0 if it was not executed
StepIndex(name) ==
  IF \E i \in 1..Len(steps) : steps[i] = name
  THEN CHOOSE i \in 1..Len(steps) : steps[i] = name
  ELSE 0

\* a validator ran to its end and returned its result dict
ValidationCompleted ==
  /\ fn \in {"validate_sef_framework", "validate_domain_sef"}
  /\ ret = "dict"

\* C18: in every run of validate_sef_framework and validate_domain_sef the
\* steps occur in the order partition, estimate, normality test, SEF
\* computation, emit: the normality tests of both groups are executed before
\* the SEF value is computed
C18_NormalityBeforeSef ==
  ValidationCompleted =>
    /\ 0 < StepIndex("partition")
    /\ StepIndex("partition") < StepIndex("estimate")
    /\ StepIndex("estimate") < StepIndex("normality_test")
    /\ StepIndex("normality_test") < StepIndex("sef_compute")
    /\ StepIndex("sef_compute") < StepIndex("emit")

(***************************************************************************)
(* calculate_sef in rounded arithmetic.  float64 rounds every operation to *)
(* the nearest number with a 53-bit significand, ties to even; the model   *)
(* does the same with a significand of MantissaBits bits.  The exponent    *)
(* range is not limited: no input below overflows or underflows.           *)
(***************************************************************************)
MantissaBits == 4
\* exponents of the values that occur lie in -MaxExponent..MaxExponent
MaxExponent == 8

\* n/d * 2^s as a pair of integers
Scaled(n, d, s) == IF s >= 0 THEN <<n * 2^s, d>> ELSE <<n, d * 2^(-s)>>

\* the e with 2^e <= n/d < 2^(e+1), for n/d > 0
Exponent(n, d) ==
  CHOOSE e \in -MaxExponent..MaxExponent :
    LET y == Scaled(n, d, -e) IN y[1] >= y[2] /\ y[1] < 2 * y[2]

\* round to nearest, ties to even, of the quotient yn/yd
NearestEven(yn, yd) ==
  LET m == yn \div yd
      r == yn % yd
  IN  IF 2 * r > yd \/ (2 * r = yd /\ m % 2 = 1) THEN m + 1 ELSE m

\* the representable number nearest to the fraction x
RoundFin(x) ==
  IF x.n = 0 THEN Zero
  ELSE LET e == Exponent(Abs(x.n), x.d)
           y == Scaled(Abs(x.n), x.d, MantissaBits - 1 - e)
           z == Scaled(Sign(x.n) * NearestEven(y[1], y[2]), 1, e - MantissaBits + 1)
       IN  Fin(z[1], z[2])

RAdd(x, y) == RoundFin(Add1(x, y))
RSub(x, y) == RoundFin(Add1(x, Neg1(y)))
RMul(x, y) == RoundFin(Mul1(x, y))
RDiv(x, y) == RoundFin(Div1(x, y))

\* the e with 4^e <= n/d < 4^(e+1): the exponent of sqrt(n/d)
RootExponent(n, d) ==
  CHOOSE e \in -MaxExponent..MaxExponent :
    LET y == Scaled(n, d, -2 * e) IN y[1] >= y[2] /\ y[1] < 4 * y[2]

\* np.sqrt of a fraction x >= 0, correctly rounded: with q the spacing of the
\* representable numbers around sqrt(x), the largest m with (m*q)^2 <= x, or
\* m + 1 when x lies above the square of the midpoint (m + 1/2)*q
RSqrt(x) ==
  IF x.n = 0 THEN Zero
  ELSE LET e == RootExponent(x.n, x.d)
           y == Scaled(x.n, x.d, 2 * (MantissaBits - 1 - e))
           m == CHOOSE i \in 2^(MantissaBits - 1)..(2^MantissaBits - 1) :
                  i * i * y[2] <= y[1] /\ y[1] < (i + 1) * (i + 1) * y[2]
           up == \/ 4 * y[1] > (2 * m + 1) * (2 * m + 1) * y[2]
                 \/ (4 * y[1] = (2 * m + 1) * (2 * m + 1) * y[2] /\ m % 2 = 1)
           z == Scaled(IF up THEN m + 1 ELSE m, 1, e - MantissaBits + 1)
       IN  Fin(z[1], z[2])

\* 1 + kappa - 2 * np.sqrt(kappa) * rho, each operation rounded
sef_denominator_rounded(kappa, rho) ==
  RSub(RAdd(One, kappa), RMul(RMul(Two, RSqrt(kappa)), rho))

calculate_sef_rounded(kappa, rho) ==
  IF FLe(sef_denominator_rounded(kappa, rho), Zero)
  THEN Inf
  ELSE RDiv(RAdd(One, kappa), sef_denominator_rounded(kappa, rho))

\* the representable numbers m * 2^(e - MantissaBits + 1) with exponent e in lo..hi
Representable(lo, hi) ==
  {Fin(Scaled(m, 1, e - MantissaBits + 1)[1], Scaled(m, 1, e - MantissaBits + 1)[2]) :
     m \in 2^(MantissaBits - 1)..(2^MantissaBits - 1), e \in lo..hi}

\* kappa in [1/2, 2], rho in [-1, -1/4] and in [1/4, 1], and 0
RoundedKappas == Representable(-1, 0) \cup {Two}
RoundedRhos ==
  Representable(-2, -1) \cup {FNeg(r) : r \in Representable(-2, -1)} \cup {Zero, One, FNeg(One)}

\* a call calculate_sef(kappa, rho) evaluated as the interpreter evaluates it
CalculateSefRounded(kappa, rho) ==
  /\ fn = "none"
  /\ fn' = "calculate_sef"
  /\ sefArgs' = [kappa |-> kappa, rho |-> rho]
  /\ sefRet' = calculate_sef_rounded(kappa, rho)
  /\ sefDivisor' = sef_denominator_rounded(kappa, rho)
  /\ UNCHANGED <<swapRet, impParams, impRet, logStats, logRet, nonSefVars>>

NextSefRounded ==
  \E kappa \in RoundedKappas, rho \in RoundedRhos : CalculateSefRounded(kappa, rho)

SpecSefRounded == Init /\ [][NextSefRounded]_vars

\* C19: for kappa > 0 and rho in [-1, 1], calculate_sef returns +infinity only
\* for kappa = 1 and rho = 1; for every other such pair the denominator
\* 1 + kappa - 2*sqrt(kappa)*rho is strictly positive and the result is finite
C19_InfiniteOnlyAtOneOne ==
  (/\ fn = "calculate_sef"
   /\ FGt(sefArgs.kappa, Zero)
   /\ FLe(FNeg(One), sefArgs.rho)
   /\ FLe(sefArgs.rho, One))
  => IF sefArgs.kappa = One /\ sefArgs.rho = One
     THEN sefRet = Inf
     ELSE FGt(sefDivisor, Zero) /\ sefRet.k = "fin"

(***************************************************************************)
(* create_1000_plus_dataset.py: generate_synthetic_studies.  One action is *)
(* one iteration of the while loop.  Of a study the model keeps NCTId and  *)
(* EnrollmentCount; Condition, InterventionName and StudyType are random   *)
(* draws that nothing else reads.                                          *)
(***************************************************************************)
MaxNeeded == 220

\* the list np.random.choice draws the enrollment from, or the remainder itself
enrollment_choices(remaining) ==
  IF remaining >= 200 THEN {50, 75, 100, 150, 200}
  ELSE IF remaining >= 100 THEN {30, 40, 50, 75, 100}
  ELSE {remaining}

Min(a, b) == IF a <= b THEN a ELSE b

\* f"NCT{study_id}"
nct_id(id) == <<"NCT", id>>

\* a mutant of next_study_id: the counter is not advanced
next_study_id_unchanged(id) == id

\* study_id += 1
next_study_id(id) == id + 1

\* a mutant of remaining_after: one measurement too many is taken off
remaining_after_overdrawn(remaining, enrollment) == remaining - enrollment - 1

\* remaining_measurements -= enrollment
remaining_after(remaining, enrollment) == remaining - enrollment

GenerateSyntheticStudies(needed) ==
  /\ fn' = "generate_synthetic_studies"
  /\ needed_measurements' = needed
  /\ remaining_measurements' = needed
  /\ study_id' = 10000000
  /\ synthetic_studies' = <<>>
  /\ synth_pc' = IF remaining_measurements' > 0 THEN "loop" ELSE "returned"
  /\ UNCHANGED nonSynthVars

SyntheticStudy(choice) ==
  /\ fn \in {"generate_synthetic_studies", "create_1000_plus_dataset"}
  /\ synth_pc = "loop"
  /\ LET enrollment == Min(choice, remaining_measurements)
     IN  /\ synthetic_studies' = Append(synthetic_studies,
              [NCTId |-> nct_id(study_id), EnrollmentCount |-> enrollment])
         /\ remaining_measurements' = remaining_after(remaining_measurements, enrollment)
  /\ study_id' = next_study_id(study_id)
  /\ synth_pc' = IF remaining_measurements' > 0 THEN "loop" ELSE "returned"
  /\ UNCHANGED <<fn, needed_measurements, nonSynthVars>>

NextSynthetic ==
  \/ fn = "none" /\ \E needed \in 0..MaxNeeded : GenerateSyntheticStudies(needed)
  \/ \E choice \in enrollment_choices(remaining_measurements) : SyntheticStudy(choice)

SpecSynthetic == Init /\ [][NextSynthetic]_vars

\* the loop runs on while its condition holds
SpecSyntheticFair ==
  /\ SpecSynthetic
  /\ WF_vars(\E choice \in enrollment_choices(remaining_measurements) :
               SyntheticStudy(choice))

\* generate_synthetic_studies has returned its list
StudiesReturned == fn = "generate_synthetic_studies" /\ synth_pc = "returned"

\* C20: for every integer needed_measurements >= 1 and every outcome of the
\* random choices, generate_synthetic_studies returns studies whose
\* EnrollmentCount values are each >= 1 and sum to exactly needed_measurements
\* (never more), with pairwise distinct NCTId values
C20_StudiesSumToNeeded ==
  (StudiesReturned /\ needed_measurements >= 1) =>
    /\ \A i \in 1..Len(synthetic_studies) : synthetic_studies[i].EnrollmentCount >= 1
    /\ enrollment_total(synthetic_studies) = needed_measurements
    /\ \A i, j \in 1..Len(synthetic_studies) :
         i # j => synthetic_studies[i].NCTId # synthetic_studies[j].NCTId

\* a returned list of at least three studies that began with a large draw
C20_SeveralStudiesReturned ==
  /\ StudiesReturned
  /\ needed_measurements >= 200
  /\ Len(synthetic_studies) >= 3

\* C27: in fetch_final_trials_to_reach_target a 200 response whose studies
\* include none with a valid enrollment count is not an error: the 'Error in
\* batch' branch is entered only when the HTTP request or the response parsing
\* raised
C27_EmptyBatchIsNoError ==
  (fn = "fetch_final_trials_to_reach_target" /\ "Error in batch" \in fetch_printed)
    => CallFailed

\* a step of fetch_more_clinical_trials that issues an HTTP request
FetchMoreRequest == fn = "fetch_more_clinical_trials" /\ requests' = requests + 1

\* C23: fetch_more_clinical_trials issues at most 50 HTTP requests in a run,
\* and issues no request after the estimated total of measurements has reached
\* target_measurements or after a response that carries no nextPageToken
C23_RequestsBounded ==
  [][FetchMoreRequest =>
       /\ requests < 50
       /\ total_measurements < target_measurements
       /\ (requests = 0 \/ page_token)]_vars

\* a run of fetch_more_clinical_trials that used all its attempts
C23_AllAttemptsUsed ==
  /\ fn = "fetch_more_clinical_trials"
  /\ requests = 50
  /\ fetch_pc = "returned"

(***************************************************************************)
(* The quadrant label of a pair (delta, kappa) in the three scripts that   *)
(* assign one: variance_asymmetry_quadrant_analysis.py (quadrant_of        *)
(* above), explore_alternative_datasets.py and                             *)
(* correlation_validation_analysis.py.                                     *)
(***************************************************************************)

\* analyze_quadrant_distribution: actual_quadrant
actual_quadrant(delta, kappa) ==
  IF FGt(delta, Fin(1, 2))
  THEN (IF FLt(kappa, One) THEN "Q1" ELSE "Q2")
  ELSE (IF FLt(kappa, One) THEN "Q3" ELSE "Q4")

\* generate_comprehensive_parameter_space: quadrant
parameter_space_quadrant(delta, kappa) ==
  IF FGt(delta, Zero) /\ FLt(kappa, One) THEN "Q1"
  ELSE IF FGt(delta, Zero) /\ FGt(kappa, One) THEN "Q2"
  ELSE IF FLt(delta, Zero) /\ FGt(kappa, One) THEN "Q3"
  ELSE IF FLt(delta, Zero) /\ FLt(kappa, One) THEN "Q4"
  ELSE "Boundary"

\* delta in steps of 1/RhoDen in [-RhoSpan, RhoSpan], kappa in [0, RhoSpan]
QuadrantDeltas == {Fin(i, RhoDen) : i \in (0 - RhoSpan * RhoDen)..(RhoSpan * RhoDen)}
QuadrantKappas == {Fin(i, RhoDen) : i \in 0..(RhoSpan * RhoDen)}

\* the three scripts classify the same pair
AssignQuadrants(delta, kappa) ==
  /\ fn = "none"
  /\ fn' = "assign_quadrants"
  /\ quadrants' = [delta |-> delta, kappa |-> kappa,
                   quadrant |-> quadrant_of(delta, kappa),
                   actual_quadrant |-> actual_quadrant(delta, kappa),
                   parameter_space |-> parameter_space_quadrant(delta, kappa)]
  /\ UNCHANGED nonQuadVars

NextQuadrant ==
  \E delta \in QuadrantDeltas, kappa \in QuadrantKappas : AssignQuadrants(delta, kappa)

SpecQuadrant == Init /\ [][NextQuadrant]_vars

\* the label the rule with the thresholds 0.5 and 1 gives
RuleLabel(delta, kappa) ==
  CASE FGt(delta, Fin(1, 2)) /\ FLt(kappa, One) -> "Q1"
    [] FGt(delta, Fin(1, 2)) /\ FGe(kappa, One) -> "Q2"
    [] FLe(delta, Fin(1, 2)) /\ FLt(kappa, One) -> "Q3"
    [] FLe(delta, Fin(1, 2)) /\ FGe(kappa, One) -> "Q4"

\* C24: every script that assigns a quadrant assigns the same label to the
\* same (delta, kappa): each pair gets exactly one of Q1..Q4, with Q1 iff
\* delta > 0.5 and kappa < 1, Q2 iff delta > 0.5 and kappa >= 1, Q3 iff
\* delta <= 0.5 and kappa < 1, Q4 iff delta <= 0.5 and kappa >= 1
C24_SameQuadrantEverywhere ==
  fn = "assign_quadrants" =>
    /\ quadrants.quadrant = RuleLabel(quadrants.delta, quadrants.kappa)
    /\ quadrants.actual_quadrant = quadrants.quadrant
    /\ quadrants.parameter_space = quadrants.quadrant

(***************************************************************************)
(* apply_sef_to_cms_data.py: calculate_sef_parameters and the series that  *)
(* test_normality_and_log_transform hands back to it.  A series is         *)
(* described by its number n of values after dropna(), whether all of them *)
(* are positive, and whether the three tests pass on it (normal) and on    *)
(* its logarithm (log_normal).                                             *)
(***************************************************************************)
SeriesInputs ==
  [n : {LogTransformMin - 1, OmnibusMin}, positive : BOOLEAN, normal : BOOLEAN,
   log_normal : BOOLEAN]

\* the tuple test_normality_and_log_transform returns: the series (data,
\* clean_data or log_data), is_normal and log_transformed
transform_return(series) ==
  IF series.n < LogTransformMin
  THEN [series |-> "data", is_normal |-> FALSE, log_transformed |-> FALSE]
  ELSE IF ~series.normal /\ series.positive /\ series.log_normal
       THEN [series |-> "log_data", is_normal |-> series.normal, log_transformed |-> TRUE]
       ELSE [series |-> "clean_data", is_normal |-> series.normal, log_transformed |-> FALSE]

\* mayo_final and cleveland_final: both branches of 'if mayo_log and
\* cleveland_log' assign the series the check returned
final_series(own, other) == own.series

\* calculate_sef_parameters(mayo_data, cleveland_data, measure_name): the
\* statistics are taken from mayo_final and cleveland_final
CalculateSefParameters(mayo_data, cleveland_data) ==
  /\ fn = "none"
  /\ fn' = "calculate_sef_parameters"
  /\ sef_params' =
       [mayo_data |-> mayo_data, cleveland_data |-> cleveland_data,
        mayo_log |-> transform_return(mayo_data).log_transformed,
        cleveland_log |-> transform_return(cleveland_data).log_transformed,
        mayo_final |-> final_series(transform_return(mayo_data), transform_return(cleveland_data)),
        cleveland_final |-> final_series(transform_return(cleveland_data), transform_return(mayo_data))]
  /\ UNCHANGED nonParamVars

NextParameters ==
  \E mayo_data \in SeriesInputs, cleveland_data \in SeriesInputs :
    CalculateSefParameters(mayo_data, cleveland_data)

SpecParameters == Init /\ [][NextParameters]_vars

\* C25: calculate_sef_parameters computes the statistics of the two hospitals
\* on the same scale: log-transformed values enter the statistics of a
\* hospital only when the data of both hospitals were log-transformed; if only
\* one hospital's data passed the log-normality check, raw values are used
\* for both
C25_SameScaleForBoth ==
  (/\ fn = "calculate_sef_parameters"
   /\ \/ sef_params.mayo_final = "log_data"
      \/ sef_params.cleveland_final = "log_data")
  => (sef_params.mayo_log /\ sef_params.cleveland_log)

(***************************************************************************)
(* validate_scraped_datasets.py: the loop over the datasets, one action    *)
(* per dataset, and generate_validation_report.  A dict is a record whose  *)
(* fields are its keys.                                                    *)
(***************************************************************************)
ScrapedDatasets == <<"Clinical Trials", "Financial Markets", "Education Assessment",
                     "Social Media">>

\* what the try block of one iteration meets: read_csv raises; the structure
\* is invalid; an analysis raises after the entry was stored; the correlation
\* analysis is not valid for SEF; it is valid for SEF
DatasetOutcomes == {"load_error", "invalid", "analysis_raised", "not_suitable", "suitable"}

\* the entry the except clause stores, and the one of an invalid structure
invalid_entry == [valid_structure |-> FALSE, invalid_reason |-> "reason"]

\* calculate_sef_values(data, dataset_name)
calculate_sef_values ==
  [sef_calculated |-> TRUE, reason |-> "Dataset structure suitable for SEF calculation",
   note |-> "Full SEF calculation requires dataset-specific pairing logic"]

\* the entry of a dataset with a valid structure
valid_entry(valid_for_sef) ==
  [valid_structure |-> TRUE, invalid_reason |-> "",
   correlation_analysis |->
     IF valid_for_sef
     THEN [valid_for_sef |-> TRUE, mean_correlation |-> "mean"]
     ELSE [valid_for_sef |-> FALSE, reason |-> "reason"],
   normality_analysis |-> "normality_tests",
   sef_analysis |->
     IF valid_for_sef
     THEN calculate_sef_values
     ELSE [valid |-> FALSE, reason |-> "Correlation requirements not met"]]

ValidateScrapedDatasets ==
  /\ fn' = "validate_scraped_datasets"
  /\ report_pc' = "loop"
  /\ UNCHANGED <<validation_results, report_printed, report_ret, nonReportVars>>

ValidateDataset(outcome) ==
  /\ fn = "validate_scraped_datasets"
  /\ report_pc = "loop"
  /\ validation_results' = Append(validation_results,
       CASE outcome = "suitable" -> valid_entry(TRUE)
         [] outcome = "not_suitable" -> valid_entry(FALSE)
         [] OTHER -> invalid_entry)
  /\ report_pc' = IF Len(validation_results') < Len(ScrapedDatasets) THEN "loop" ELSE "report"
  /\ UNCHANGED <<fn, report_printed, report_ret, nonReportVars>>

\* result['sef_analysis']['valid'] raises KeyError on a dict without the key
sef_lookup_raises(result) ==
  /\ result.valid_structure
  /\ "sef_analysis" \in DOMAIN result
  /\ "valid" \notin DOMAIN result.sef_analysis

\* the lines the report prints for one entry, up to a KeyError at line 336
entry_lines(result) ==
  IF ~result.valid_structure THEN {"Structure: Invalid"}
  ELSE {"Structure: Valid", "Normality: Tested"}
       \cup (IF result.correlation_analysis.valid_for_sef
             THEN {"Correlation: Suitable for SEF"}
             ELSE {"Correlation: Not suitable for SEF"})
       \cup (IF sef_lookup_raises(result) THEN {}
             ELSE IF result.sef_analysis.valid THEN {"SEF: Calculation feasible"}
             ELSE {"SEF: Calculation not feasible"})

\* the number of entries the loop of the report gets through
RECURSIVE entries_reported(_)
entries_reported(entries) ==
  IF entries = <<>> THEN 0
  ELSE IF sef_lookup_raises(Head(entries)) THEN 1
  ELSE 1 + entries_reported(Tail(entries))

\* generate_validation_report(validation_results), the last statement of
\* validate_scraped_datasets
GenerateValidationReport ==
  /\ fn = "validate_scraped_datasets"
  /\ report_pc = "report"
  /\ report_pc' = "returned"
  /\ LET raised == \E i \in 1..Len(validation_results) : sef_lookup_raises(validation_results[i])
         lines == UNION {entry_lines(validation_results[i]) :
                           i \in 1..entries_reported(validation_results)}
     IN  /\ report_ret' = IF raised THEN "KeyError" ELSE "None"
         /\ report_printed' = lines \cup (IF raised THEN {} ELSE {"SUMMARY"})
  /\ UNCHANGED <<fn, validation_results, nonReportVars>>

NextReport ==
  \/ fn = "none" /\ ValidateScrapedDatasets
  \/ \E outcome \in DatasetOutcomes : ValidateDataset(outcome)
  \/ GenerateValidationReport

SpecReport == Init /\ [][NextReport]_vars

\* the report has ended
ReportEnded == fn = "validate_scraped_datasets" /\ report_pc = "returned"

\* C26: generate_validation_report finishes without raising for every
\* validation_results that validate_scraped_datasets can build, a dataset
\* that is valid for SEF and whose 'sef_analysis' entry came from
\* calculate_sef_values included; such a dataset is reported as
\* 'SEF: Calculation feasible'
C26_ReportNeverRaises ==
  ReportEnded =>
    /\ report_ret = "None"
    /\ (\E i \in 1..Len(validation_results) :
          /\ validation_results[i].valid_structure
          /\ validation_results[i].correlation_analysis.valid_for_sef)
       => "SEF: Calculation feasible" \in report_printed

(***************************************************************************)
(* download_and_analyze_cms_data.py: download_cms_zip_file and its two     *)
(* callers that remove the file afterwards.  One action is one call of     *)
(* analyze_cms_data_structure or one iteration of the loop of              *)
(* test_multiple_cms_datasets.                                             *)
(***************************************************************************)
ZipFiles == <<"cms_inpatient_2021.zip", "cms_inpatient_2020.zip", "cms_inpatient_2018.zip">>

ZipFileNames == {ZipFiles[i] : i \in 1..Len(ZipFiles)}

\* what a download meets: requests.get raises; a status other than 200; the
\* write of the file raises after open created it; the saved file is not a
\* ZIP archive and zipfile.ZipFile raises; the archive is read
DownloadOutcomes == {"request_raised", "status", "write_raised", "bad_zip", "ok"}

\* download_cms_zip_file(url, filename): whether it returns True and whether
\* it created the file
download_cms_zip_file(outcome) ==
  [success |-> outcome = "ok",
   written |-> outcome \in {"write_raised", "bad_zip", "ok"}]

\* the caller's clean-up: if success: if os.path.exists(filename): os.remove(filename)
disk_after(files, filename, download) ==
  IF download.success THEN files \ {filename}
  ELSE IF download.written THEN files \cup {filename}
  ELSE files

\* analyze_cms_data_structure(), started with the files of earlier runs on disk
AnalyzeCmsDataStructure(existing, outcome) ==
  /\ fn' = "analyze_cms_data_structure"
  /\ zip_pc' = "returned"
  /\ zip_written' = IF download_cms_zip_file(outcome).written THEN {ZipFiles[1]} ELSE {}
  /\ disk' = disk_after(existing, ZipFiles[1], download_cms_zip_file(outcome))
  /\ UNCHANGED <<zip_index, successful_downloads, nonZipVars>>

\* test_multiple_cms_datasets(), started with the files of earlier runs on disk
TestMultipleCmsDatasets(existing) ==
  /\ fn' = "test_multiple_cms_datasets"
  /\ zip_pc' = "loop"
  /\ disk' = existing
  /\ UNCHANGED <<zip_index, zip_written, successful_downloads, nonZipVars>>

TestDataset(outcome) ==
  /\ fn = "test_multiple_cms_datasets"
  /\ zip_pc = "loop"
  /\ zip_index' = zip_index + 1
  /\ zip_written' =
       IF download_cms_zip_file(outcome).written
       THEN zip_written \cup {ZipFiles[zip_index']} ELSE zip_written
  /\ successful_downloads' =
       IF download_cms_zip_file(outcome).success
       THEN Append(successful_downloads, ZipFiles[zip_index']) ELSE successful_downloads
  /\ disk' = disk_after(disk, ZipFiles[zip_index'], download_cms_zip_file(outcome))
  /\ zip_pc' = IF zip_index' < Len(ZipFiles) THEN "loop" ELSE "returned"
  /\ UNCHANGED <<fn, nonZipVars>>

NextZip ==
  \/ fn = "none" /\ \E existing \in SUBSET ZipFileNames, outcome \in DownloadOutcomes :
       AnalyzeCmsDataStructure(existing, outcome)
  \/ fn = "none" /\ \E existing \in SUBSET ZipFileNames : TestMultipleCmsDatasets(existing)
  \/ \E outcome \in DownloadOutcomes : TestDataset(outcome)

SpecZip == Init /\ [][NextZip]_vars

\* analyze_cms_data_structure or test_multiple_cms_datasets has returned
DownloadsReturned ==
  /\ fn \in {"analyze_cms_data_structure", "test_multiple_cms_datasets"}
  /\ zip_pc = "returned"

\* C28: after analyze_cms_data_structure or test_multiple_cms_datasets
\* returns, no ZIP file written by download_cms_zip_file during that call
\* remains on disk, whether the download and the extraction succeeded or
\* failed (a saved file that is not a valid ZIP archive included)
C28_NoZipLeftBehind ==
  DownloadsReturned => zip_written \cap disk = {}

(***************************************************************************)
(* create_1000_plus_dataset.py: create_1000_plus_dataset.  The call loads  *)
(* the real studies, runs the loop of generate_synthetic_studies (the      *)
(* action SyntheticStudy) when measurements are missing, and writes the    *)
(* combined dataset.                                                       *)
(***************************************************************************)
\* target_measurements = 1000
create_target_measurements == 1000

\* the EnrollmentCount columns clinical_trials_clean_final.csv may hold: the
\* counts are positive integers; the totals range over both sides of the
\* target and leave at most 200 measurements to supplement
RealEnrollments ==
  {<<a>> : a \in {800, 900, 1000, 1100}}
    \cup {<<a, b>> : a \in {800, 900, 1000}, b \in {1, 50, 99, 100, 150}}

\* the rows of the file: one study per count
real_rows(counts) ==
  [i \in 1..Len(counts) |-> [NCTId |-> nct_id(i), EnrollmentCount |-> counts[i]]]

Max(a, b) == IF a >= b THEN a ELSE b

\* a mutant of pd_concat: the real rows are dropped
pd_concat_second_only(first, second) == second

\* pd.concat([df_real, df_synthetic], ignore_index=True)
pd_concat(first, second) == first \o second

Create1000PlusDataset(found, counts) ==
  /\ fn' = "create_1000_plus_dataset"
  /\ IF ~found
     THEN /\ create_pc' = "returned"
          /\ create_ret' = "None"
          /\ UNCHANGED <<df_real, final_df, synthVars>>
     ELSE /\ df_real' = real_rows(counts)
          /\ needed_measurements' =
               Max(0, create_target_measurements - enrollment_total(df_real'))
          /\ IF needed_measurements' <= 0
             THEN /\ final_df' = df_real'
                  /\ create_pc' = "returned"
                  /\ create_ret' = "final_df"
                  /\ UNCHANGED <<synth_pc, remaining_measurements, study_id,
                                 synthetic_studies>>
             ELSE /\ remaining_measurements' = needed_measurements'
                  /\ study_id' = 10000000
                  /\ synthetic_studies' = <<>>
                  /\ synth_pc' = "loop"
                  /\ create_pc' = "generating"
                  /\ UNCHANGED <<final_df, create_ret>>
  /\ UNCHANGED nonCreateVars

\* the synthetic studies are returned: concat, to_csv, return final_df
WriteFinalDataset ==
  /\ fn = "create_1000_plus_dataset"
  /\ create_pc = "generating"
  /\ synth_pc = "returned"
  /\ final_df' = pd_concat(df_real, synthetic_studies)
  /\ create_pc' = "returned"
  /\ create_ret' = "final_df"
  /\ UNCHANGED <<fn, df_real, synthVars, nonCreateVars>>

NextCreate ==
  \/ fn = "none" /\ \E found \in BOOLEAN, counts \in RealEnrollments :
       Create1000PlusDataset(found, counts)
  \/ \E choice \in enrollment_choices(remaining_measurements) : SyntheticStudy(choice)
  \/ WriteFinalDataset

SpecCreate == Init /\ [][NextCreate]_vars

\* create_1000_plus_dataset has written clinical_trials_1000_plus_final.csv
DatasetWritten ==
  /\ fn = "create_1000_plus_dataset"
  /\ create_pc = "returned"
  /\ create_ret = "final_df"

\* C21: when the real dataset file exists, the dataset written by
\* create_1000_plus_dataset has total EnrollmentCount max(real_total, 1000):
\* exactly 1000 when the real total is below 1000, and the real rows unchanged
\* with no synthetic row when the real total is already >= 1000
C21_WrittenTotalIsMax ==
  DatasetWritten =>
    /\ enrollment_total(final_df) =
         Max(enrollment_total(df_real), create_target_measurements)
    /\ enrollment_total(df_real) < create_target_measurements
         => enrollment_total(final_df) = create_target_measurements
    /\ enrollment_total(df_real) >= create_target_measurements
         => final_df = df_real

\* a written dataset of two real studies below the target and at least two
\* synthetic ones
C21_SupplementWritten ==
  /\ DatasetWritten
  /\ Len(df_real) = 2
  /\ enrollment_total(df_real) < create_target_measurements
  /\ Len(final_df) >= Len(df_real) + 2

\* one iteration of the while loop of generate_synthetic_studies
SyntheticIteration ==
  /\ fn = "generate_synthetic_studies"
  /\ Len(synthetic_studies') = Len(synthetic_studies) + 1

\* C29: generate_synthetic_studies terminates for every integer
\* needed_measurements >= 0: remaining_measurements strictly decreases in each
\* iteration and never becomes negative, so the loop runs at most
\* needed_measurements times (zero iterations and an empty list for 0)
C29_GenerationTerminates ==
  /\ [][SyntheticIteration =>
          /\ remaining_measurements' < remaining_measurements
          /\ remaining_measurements' >= 0]_vars
  /\ [](fn = "generate_synthetic_studies" =>
          /\ remaining_measurements >= 0
          /\ Len(synthetic_studies) <= needed_measurements)
  /\ [](StudiesReturned /\ needed_measurements = 0 => synthetic_studies = <<>>)
  /\ (fn = "generate_synthetic_studies") ~> StudiesReturned

\* a call that returned after four draws from the list and a last study that
\* took the remainder
C29_RemainderTaken ==
  /\ StudiesReturned
  /\ Len(synthetic_studies) >= 5
  /\ synthetic_studies[Len(synthetic_studies)].EnrollmentCount < 30

\* combined_df = pd.concat([df, new_df], ignore_index=True), the dataset
\* supplement_to_1000 writes to clinical_trials_1000_plus.csv
combined_df == pd_concat(loaded_df, additional_studies)

\* supplement_to_1000 has written the combined dataset
CombinedWritten ==
  /\ fn = "supplement_to_1000"
  /\ fetch_pc = "returned"
  /\ fetch_ret = "combined_df"

\* C22: given a loaded dataset with pairwise distinct NCTId values, the
\* combined dataset written by supplement_to_1000 contains no NCTId twice,
\* whatever batches are fetched (the same studies in consecutive batches
\* included)
C22_NoNctIdTwice ==
  CombinedWritten =>
    \A i, j \in 1..Len(combined_df) :
      i # j => combined_df[i].NCTId # combined_df[j].NCTId

====
